---- MODULE Spec2Model ----
(***************************************************************************)
(* The resilient request core of noblox.js: the circuit breaker, the       *)
(* token-bucket rate limiter, the CSRF token cache and the retry           *)
(* orchestration of lib/accountsettings/kickPlayer.js; token acquisition,  *)
(* the proxy middleware and the dispatcher of lib/util; the kick itself.   *)
(*                                                                         *)
(* JavaScript runs one callback to completion at a time, so every action   *)
(* below is the synchronous stretch of code between two suspension points  *)
(* (an await on the network, on a timer, or on a promise).  Time is the    *)
(* wall clock Date.now() in milliseconds; it advances only in Tick.        *)
(***************************************************************************)
EXTENDS Integers, Sequences, FiniteSets, TLC

VARIABLES
  now,      \* Date.now()
  cb,       \* globalState.circuitBreaker
  rl,       \* globalState.rateLimiter
  csrf,     \* globalState.csrfCache
  orch,     \* one retryWithBackoff call chain per caller
  cons,     \* direct callers of RateLimiter.consume(n)
  tok,      \* callers of CSRFManager.getToken
  promises, \* the promises _refreshToken has returned
  timers,   \* pending proactive-refresh timers of _refreshToken
  probe,    \* one getGeneralToken(jar) call of lib/util/getGeneralToken.js
  disp,     \* one logical call of the dispatcher, lib/util/http.js exports.func
  px,       \* one applyProxy(requestArgs) evaluation of the proxy middleware
  kick,     \* one kickPlayer(jar, userId, apiUrl) call
  gu,       \* one guaranteedUnblock(args) call
  conf,     \* settings.json's proxy sections, the environment, and the
            \* results of the last configure and getConfiguration calls
  fn,       \* one evaluation of a pure helper of kickPlayer.js
  step,     \* one blockUser(jar, token, userId, apiUrl) call
  blk       \* one block({userId}) call of lib/accountsettings/block.js

\* the state of kickPlayer.js's resilience core, and the state of the
\* request layer and of the kick state machine.
coreVars == <<now, cb, rl, csrf, orch, cons, tok, promises, timers>>
netVars == <<probe, disp, px, kick, gu, conf, fn, step, blk>>
vars == <<now, cb, rl, csrf, orch, cons, tok, promises, timers, probe, disp, px, kick,
          gu, conf, fn, step, blk>>

\* no request-layer call and no kick has been started.
NetIdle ==
  /\ probe = <<>> /\ disp = <<>> /\ px = <<>> /\ kick = <<>>
  /\ gu = <<>> /\ conf = <<>>
  /\ fn = <<>> /\ step = <<>> /\ blk = <<>>

\* JavaScript null; every timestamp of the model is >= 0.
NULL == 0 - 1

----------------------------------------------------------------------------
(* Configuration constants, kickPlayer.js lines 42-64 *)

MAX_RETRIES == 3
INITIAL_BACKOFF_MS == 1000
MAX_BACKOFF_MS == 30000
JITTER_MS == 500
RATE_LIMIT_BACKOFF_MS == 60000
CIRCUIT_FAILURE_THRESHOLD == 5
CIRCUIT_WINDOW_MS == 60000
CIRCUIT_RESET_TIMEOUT_MS == 30000
RATE_LIMIT_TOKENS == 50
RATE_LIMIT_REFILL_MS == 60000
RATE_LIMIT_MAX_TOKENS == 100
CSRF_CACHE_TTL_MS == 1200000
CSRF_PREEMPTIVE_REFRESH_MS == 300000

----------------------------------------------------------------------------
(* Bounds of the model *)

\* retryWithBackoff calls made in one behaviour, by all callers together
MaxCalls == 2
\* RateLimiter.consume calls made in one behaviour, by all consumers together
MaxConsumes == 3
\* CSRFManager.getToken calls made in one behaviour, by all callers together
MaxGets == 3
\* calls of _refreshToken in one behaviour
MaxRefreshes == 2

\* concurrent kick call chains sharing the process-wide state
Procs == {"k1", "k2"}
\* the instants at which the orchestration is observed: the clock jumps from
\* one to any later one
OrchTimes == {0, 1000, 3000, 30000, 31000, 60000, 61000, 120000}
\* Math.random() * JITTER_MS lies in [0, JITTER_MS): its two ends
Jitters == {0, JITTER_MS - 1}

Min(a, b) == IF a < b THEN a ELSE b
Max(a, b) == IF a > b THEN a ELSE b

RECURSIVE Pow2(_)
Pow2(n) == IF n = 0 THEN 1 ELSE 2 * Pow2(n - 1)

----------------------------------------------------------------------------
(* Errors.  A JavaScript error object is modelled by the properties        *)
(* classifyError and its helpers read: error.code, error.name,             *)
(* error.statusCode, error.status, the retry-after header, and of          *)
(* error.message what the three tests on it see: the number matched by     *)
(* /HTTP (\d+)/ (0 when there is no match), whether it includes 'timeout', *)
(* and whether it includes 'CSRF' or 'X-CSRF-TOKEN'.                       *)

MkErr(code, name, statusCode, status, msgHttp, msgTimeout, msgCsrf, retryAfter) ==
  [code |-> code, name |-> name, statusCode |-> statusCode, status |-> status,
   msgHttp |-> msgHttp, msgTimeout |-> msgTimeout, msgCsrf |-> msgCsrf,
   retryAfter |-> retryAfter]

NoError == MkErr("", "", 0, 0, 0, FALSE, FALSE, NULL)

\* new Error(`Circuit breaker is OPEN. Next attempt in ${n}s`)
CircuitOpenError == MkErr("", "Error", 0, 0, 0, FALSE, FALSE, NULL)

\* new Error(`HTTP ${res.statusCode}: Failed to block user`)
HttpError(status) == MkErr("", "Error", 0, 0, status, FALSE, FALSE, NULL)

\* what the wrapped operation may throw in the orchestration
OpErrors == {HttpError(500), HttpError(429), HttpError(400)}

extractStatusCode(error) ==
  IF error.statusCode # 0 THEN error.statusCode
  ELSE IF error.status # 0 THEN error.status
  ELSE IF error.msgHttp # 0 THEN error.msgHttp
  ELSE 0

extractRetryAfter(error) ==
  IF error.retryAfter # NULL THEN error.retryAfter * 1000 ELSE NULL

MutClassifyRetryUnknown(error) ==
  [type |-> "unknown", retryable |-> TRUE, rateLimited |-> FALSE, retryAfter |-> NULL]

ClassifyFallthrough(error) ==
  IF error.msgCsrf
    THEN [type |-> "auth", retryable |-> TRUE, rateLimited |-> FALSE, retryAfter |-> NULL]
    ELSE [type |-> "unknown", retryable |-> FALSE, rateLimited |-> FALSE, retryAfter |-> NULL]

MutClassifyError(error) ==
  IF extractStatusCode(error) = 429
    THEN [type |-> "rate_limit", retryable |-> TRUE, rateLimited |-> TRUE,
          retryAfter |-> extractRetryAfter(error)]
    ELSE ClassifyFallthrough(error)

classifyError(error) ==
  LET code == extractStatusCode(error) IN
  IF error.code \in {"ECONNRESET", "ETIMEDOUT", "ENOTFOUND", "ECONNREFUSED"}
    THEN [type |-> "network", retryable |-> TRUE, rateLimited |-> FALSE, retryAfter |-> NULL]
  ELSE IF error.name = "AbortError" \/ error.code = "TIMEOUT" \/ error.msgTimeout
    THEN [type |-> "timeout", retryable |-> TRUE, rateLimited |-> FALSE, retryAfter |-> NULL]
  ELSE IF code = 429
    THEN [type |-> "rate_limit", retryable |-> TRUE, rateLimited |-> TRUE,
          retryAfter |-> extractRetryAfter(error)]
  ELSE IF code = 401 \/ code = 403
    THEN [type |-> "auth", retryable |-> TRUE, rateLimited |-> FALSE, retryAfter |-> NULL]
  ELSE IF code >= 500
    THEN [type |-> "server", retryable |-> TRUE, rateLimited |-> FALSE, retryAfter |-> NULL]
  ELSE IF code >= 400
    THEN [type |-> "client", retryable |-> FALSE, rateLimited |-> FALSE, retryAfter |-> NULL]
  ELSE ClassifyFallthrough(error)

MutCalculateBackoffWithJitter(attempt, jitter) ==
  INITIAL_BACKOFF_MS * Pow2(attempt) + jitter

calculateBackoffWithJitter(attempt, jitter) ==
  Min(INITIAL_BACKOFF_MS * Pow2(attempt), MAX_BACKOFF_MS) + jitter

----------------------------------------------------------------------------
(* CircuitBreaker, kickPlayer.js lines 175-254 *)

updateFailures(c, t) ==
  LET kept == SelectSeq(c.failures, LAMBDA ts : ts > t - CIRCUIT_WINDOW_MS)
  IN  [c EXCEPT !.failures = kept, !.failureCount = Len(kept)]

trip(c, t) ==
  [c EXCEPT !.state = "OPEN", !.nextAttemptTime = t + CIRCUIT_RESET_TIMEOUT_MS]

MutRecordFailureNoTrip(c, t) ==
  updateFailures([c EXCEPT !.failures = Append(@, t), !.lastFailureTime = t], t)

recordFailure(c, t) ==
  LET c1 == updateFailures([c EXCEPT !.failures = Append(@, t),
                                     !.lastFailureTime = t], t)
  IN  IF c1.failureCount >= CIRCUIT_FAILURE_THRESHOLD THEN trip(c1, t) ELSE c1

MutResetKeepsWindow(c) ==
  [c EXCEPT !.state = "CLOSED", !.nextAttemptTime = NULL]

reset(c) ==
  [c EXCEPT !.state = "CLOSED", !.failureCount = 0, !.failures = <<>>,
            !.nextAttemptTime = NULL]

\* the test of CircuitBreaker.execute that throws the circuit-open error
CircuitRejects(c, t) == c.state = "OPEN" /\ t < c.nextAttemptTime

\* the breaker as execute leaves it when it lets the operation run
AdmitState(c) == IF c.state = "OPEN" THEN [c EXCEPT !.state = "HALF_OPEN"] ELSE c

----------------------------------------------------------------------------
(* RateLimiter, kickPlayer.js lines 257-302 *)

MutRefillNoCap(r, t) ==
  LET tokensToAdd == ((t - r.lastRefill) \div RATE_LIMIT_REFILL_MS) * RATE_LIMIT_TOKENS
  IN  IF tokensToAdd > 0
        THEN [tokens |-> r.tokens + tokensToAdd, lastRefill |-> t]
        ELSE r

refillTokens(r, t) ==
  LET timePassed == t - r.lastRefill
      tokensToAdd == (timePassed \div RATE_LIMIT_REFILL_MS) * RATE_LIMIT_TOKENS
  IN  IF tokensToAdd > 0
        THEN [tokens |-> Min(RATE_LIMIT_MAX_TOKENS, r.tokens + tokensToAdd),
              lastRefill |-> t]
        ELSE r

MutCanConsume(r, n) == TRUE

\* the test of RateLimiter.consume on the refilled bucket
CanConsume(r, n) == r.tokens >= n

\* the synchronous part of RateLimiter.consume(n) at time t: the bucket it
\* leaves, whether it returned true, and when its sleep ends otherwise
Consume(r, t, n) ==
  LET r1 == refillTokens(r, t) IN
  IF CanConsume(r1, n)
    THEN [rl |-> [r1 EXCEPT !.tokens = @ - n], ok |-> TRUE, wakeAt |-> NULL]
    ELSE [rl |-> r1, ok |-> FALSE,
          wakeAt |-> t + Max(0, (r1.lastRefill + RATE_LIMIT_REFILL_MS) - t)]

----------------------------------------------------------------------------
(* Initial state: globalState as the module builds it, lines 90-125.       *)
(* globalState.metrics and the logger are left out: the counters are only  *)
(* incremented and the code never reads them to decide anything.           *)

InitCb == [state |-> "CLOSED", failureCount |-> 0, failures |-> <<>>,
           lastFailureTime |-> NULL, nextAttemptTime |-> NULL]

InitRl == [tokens |-> RATE_LIMIT_TOKENS, lastRefill |-> 0]

\* A CSRF token: the session it was acquired with and which of the tokens
\* the server hands out it is.  NoToken is the null of an empty cache.
NoToken == [jar |-> "", v |-> 0]

InitCsrf == [token |-> NoToken, expiresAt |-> NULL, refreshPromise |-> NULL]

----------------------------------------------------------------------------
(* retryWithBackoff, kickPlayer.js lines 491-566, one call chain per       *)
(* member of Procs.  pc is where the chain is suspended:                   *)
(*   idle      not in a call                                               *)
(*   rlwait    in RateLimiter.consume, asleep until the next refill        *)
(*   attempt   RateLimiter.consume has returned, the loop is about to run  *)
(*   inflight  the operation runs (CircuitBreaker.execute awaits it)       *)
(*   sleep     asleep before the next attempt                              *)
(* The other fields of a chain: attempt is the loop variable, lastError    *)
(* the variable of that name; calls counts the calls made so far; outcome  *)
(* is how the last call ended (ok, fail, or none while it runs);           *)
(* admittedIn is the breaker state in which the operation last started;    *)
(* invoked and consumed count, for the current call, the invocations of    *)
(* the operation and the tokens taken from the bucket.                     *)

InitOrchProc == [pc |-> "idle", attempt |-> 0, wakeAt |-> NULL, calls |-> 0,
                 lastError |-> NoError, outcome |-> "none", admittedIn |-> "",
                 invoked |-> 0, consumed |-> 0]

RECURSIVE SumCalls(_)
SumCalls(S) ==
  IF S = {} THEN 0
  ELSE LET p == CHOOSE x \in S : TRUE
       IN  orch[p].calls + (IF orch[p].pc = "idle" THEN 0 ELSE 1) + SumCalls(S \ {p})

\* the call chain ends: retryWithBackoff returns or throws
EndCall(o, outcome, error) ==
  [o EXCEPT !.pc = "idle", !.calls = @ + 1, !.outcome = outcome,
            !.lastError = error, !.wakeAt = NULL]

MutHandleFailure(o, error, jitter, t) ==
  [o EXCEPT !.lastError = error, !.pc = "sleep",
            !.wakeAt = t + calculateBackoffWithJitter(o.attempt, jitter)]

\* the catch block of retryWithBackoff (lines 513-561) for `error` thrown in
\* attempt o.attempt at time t: the chain as the block leaves it
HandleFailure(o, error, jitter, t) ==
  LET info == classifyError(error)
      o1 == [o EXCEPT !.lastError = error]
  IN  IF info.rateLimited
        THEN [o1 EXCEPT !.pc = "sleep",
                        !.wakeAt = t + (IF info.retryAfter # NULL /\ info.retryAfter # 0
                                          THEN info.retryAfter
                                          ELSE RATE_LIMIT_BACKOFF_MS)]
      ELSE IF ~info.retryable
        THEN EndCall(o1, "fail", error)
      ELSE IF o.attempt = MAX_RETRIES - 1
        THEN EndCall(o1, "fail", error)
      ELSE [o1 EXCEPT !.pc = "sleep",
                      !.wakeAt = t + calculateBackoffWithJitter(o.attempt, jitter)]

\* The loop body up to the await of the operation (lines 498-501 and
\* CircuitBreaker.execute lines 223-241) for the chain o of caller p.
ExecuteFrom(p, o) ==
  LET c1 == updateFailures(cb, now) IN
  IF CircuitRejects(c1, now)
    THEN /\ cb' = c1
         /\ \E j \in Jitters :
              orch' = [orch EXCEPT ![p] = HandleFailure(o, CircuitOpenError, j, now)]
    ELSE /\ cb' = AdmitState(c1)
         /\ orch' = [orch EXCEPT ![p] = [o EXCEPT !.pc = "inflight",
                                                  !.admittedIn = AdmitState(c1).state,
                                                  !.invoked = @ + 1]]

\* retryWithBackoff calls made so far by all callers
CallsMade == SumCalls(Procs)

\* retryWithBackoff is called: RateLimiter.consume() (line 496)
RwbStart(p) ==
  /\ orch[p].pc = "idle"
  /\ CallsMade < MaxCalls
  /\ LET r == Consume(rl, now, 1)
         o == [orch[p] EXCEPT !.attempt = 0, !.lastError = NoError,
                              !.outcome = "none", !.admittedIn = "",
                              !.invoked = 0, !.consumed = 0]
     IN  /\ rl' = r.rl
         /\ orch' = [orch EXCEPT ![p] =
                       IF r.ok THEN [o EXCEPT !.pc = "attempt", !.consumed = 1]
                               ELSE [o EXCEPT !.pc = "rlwait", !.wakeAt = r.wakeAt]]
  /\ UNCHANGED <<now, cb, csrf, cons, tok, promises, timers, netVars>>

\* the sleep of RateLimiter.consume ends: consume calls itself again
RwbConsumeRetry(p) ==
  /\ orch[p].pc = "rlwait"
  /\ now >= orch[p].wakeAt
  /\ LET r == Consume(rl, now, 1) IN
       /\ rl' = r.rl
       /\ orch' = [orch EXCEPT ![p] =
                     IF r.ok THEN [@ EXCEPT !.pc = "attempt", !.wakeAt = NULL,
                                            !.consumed = @ + 1]
                             ELSE [@ EXCEPT !.wakeAt = r.wakeAt]]
  /\ UNCHANGED <<now, cb, csrf, cons, tok, promises, timers, netVars>>

\* the await of RateLimiter.consume resumes: first attempt of the loop
RwbFirstAttempt(p) ==
  /\ orch[p].pc = "attempt"
  /\ ExecuteFrom(p, orch[p])
  /\ UNCHANGED <<now, rl, csrf, cons, tok, promises, timers, netVars>>

\* the sleep before the next attempt ends: attempt++, and either the loop
\* runs again or it is over and lastError is thrown (lines 564-565)
RwbWake(p) ==
  /\ orch[p].pc = "sleep"
  /\ now >= orch[p].wakeAt
  /\ LET o == [orch[p] EXCEPT !.attempt = @ + 1, !.wakeAt = NULL] IN
       IF o.attempt < MAX_RETRIES
         THEN ExecuteFrom(p, o)
         ELSE /\ orch' = [orch EXCEPT ![p] = EndCall(o, "fail", o.lastError)]
              /\ cb' = cb
  /\ UNCHANGED <<now, rl, csrf, cons, tok, promises, timers, netVars>>

\* the operation resolves: CircuitBreaker.execute lines 243-248
OpSucceed(p) ==
  /\ orch[p].pc = "inflight"
  /\ cb' = IF cb.state = "HALF_OPEN" THEN reset(cb) ELSE cb
  /\ orch' = [orch EXCEPT ![p] = EndCall(orch[p], "ok", orch[p].lastError)]
  /\ UNCHANGED <<now, rl, csrf, cons, tok, promises, timers, netVars>>

\* the operation rejects with e: CircuitBreaker.execute lines 249-252, then
\* the catch block of retryWithBackoff
OpFail(p) ==
  /\ orch[p].pc = "inflight"
  /\ cb' = recordFailure(cb, now)
  /\ \E e \in OpErrors, j \in Jitters :
       orch' = [orch EXCEPT ![p] = HandleFailure(orch[p], e, j, now)]
  /\ UNCHANGED <<now, rl, csrf, cons, tok, promises, timers, netVars>>

\* the wall clock advances
TickOrch ==
  /\ \E t \in OrchTimes : t > now /\ now' = t
  /\ UNCHANGED <<cb, rl, csrf, orch, cons, tok, promises, timers, netVars>>

\* The shared state when the modelled calls begin: as the module builds it,
\* or as earlier calls made in the current refill period left it, four of
\* which failed with a client error: 46 tokens left after these four calls,
\* or 1 token left after 49 calls.
SeedFailures == <<0, 0, 0, 0>>
SeededCb == [InitCb EXCEPT !.failures = SeedFailures, !.failureCount = Len(SeedFailures),
                           !.lastFailureTime = 0]
InitShared ==
  { <<InitCb, InitRl>>,
    <<SeededCb, [InitRl EXCEPT !.tokens = RATE_LIMIT_TOKENS - Len(SeedFailures)]>>,
    <<SeededCb, [InitRl EXCEPT !.tokens = 1]>> }

Init ==
  /\ now = 0
  /\ \E s \in InitShared : cb = s[1] /\ rl = s[2]
  /\ csrf = InitCsrf
  /\ orch = [p \in Procs |-> InitOrchProc]
  /\ cons = <<>>
  /\ tok = <<>>
  /\ promises = <<>>
  /\ timers = {}
  /\ NetIdle

Next ==
  \/ \E p \in Procs : RwbStart(p)
  \/ \E p \in Procs : RwbConsumeRetry(p)
  \/ \E p \in Procs : RwbFirstAttempt(p)
  \/ \E p \in Procs : RwbWake(p)
  \/ \E p \in Procs : OpSucceed(p)
  \/ \E p \in Procs : OpFail(p)
  \/ TickOrch

Spec == Init /\ [][Next]_vars

----------------------------------------------------------------------------
(* Steps of a call chain, as the claims speak of them *)

\* the operation of p rejects in this step (recordFailure runs)
FailStep(p) ==
  /\ orch[p].pc = "inflight"
  /\ orch'[p].pc # "inflight"
  /\ orch'[p].outcome # "ok"

\* the operation of p resolves in this step
SuccessStep(p) ==
  /\ orch[p].pc = "inflight"
  /\ orch'[p].pc = "idle"
  /\ orch'[p].outcome = "ok"

\* p calls CircuitBreaker.execute in this step
ExecuteStep(p) ==
  /\ orch'[p] # orch[p]
  /\ \/ orch[p].pc = "attempt"
     \/ orch[p].pc = "sleep" /\ orch[p].attempt + 1 < MAX_RETRIES

\* the operation of p is invoked in this step
InvokeStep(p) == orch[p].pc # "inflight" /\ orch'[p].pc = "inflight"

\* the failures of sequence f that lie inside the window ending at t
WindowCount(f, t) ==
  Cardinality({i \in 1..Len(f) : f[i] > t - CIRCUIT_WINDOW_MS})

\* the breaker is OPEN and its reset deadline has not passed
OpenBeforeDeadline == cb.state = "OPEN" /\ now < cb.nextAttemptTime

(* C1: a failure that brings the number of failures inside the 60 s window *)
(* to 5 or more leaves the breaker OPEN with the reset deadline 30 s after *)
(* that failure; and while the breaker is OPEN before its deadline, a call *)
(* of CircuitBreaker.execute is rejected with the circuit-open error and   *)
(* no operation is invoked.                                                *)
C1_TripsAndRejects ==
  [][ \A p \in Procs :
        /\ (FailStep(p) /\ WindowCount(cb.failures, now) + 1 >= CIRCUIT_FAILURE_THRESHOLD)
             => /\ cb'.state = "OPEN"
                /\ cb'.nextAttemptTime = now + CIRCUIT_RESET_TIMEOUT_MS
        /\ OpenBeforeDeadline => ~InvokeStep(p)
        /\ (OpenBeforeDeadline /\ ExecuteStep(p))
             => /\ orch'[p].lastError = CircuitOpenError
                /\ orch'[p].invoked = orch[p].invoked
                /\ cb'.state = "OPEN" ]_vars

\* a call was rejected by the breaker that five failures had opened
C1_Witness ==
  /\ cb.state = "OPEN"
  /\ cb.failureCount >= CIRCUIT_FAILURE_THRESHOLD
  /\ now < cb.nextAttemptTime
  /\ \E p \in Procs : orch[p].lastError = CircuitOpenError /\ orch[p].invoked = 1

(* C2: a call chain that received the circuit-open error has ended with    *)
(* that error and makes no further attempt; and a call of                  *)
(* CircuitBreaker.execute made when the breaker is not OPEN, or is OPEN    *)
(* with its reset deadline passed, invokes its operation.                  *)
C2_FatalButSelfHealing ==
  /\ [](\A p \in Procs :
          orch[p].lastError = CircuitOpenError
            => orch[p].pc = "idle" /\ orch[p].outcome = "fail")
  /\ [][ \A p \in Procs :
           (ExecuteStep(p) /\ ~OpenBeforeDeadline) => InvokeStep(p) ]_vars

\* one chain ended on the circuit-open error, and after the deadline the
\* operation of another was let through
C2_Witness ==
  \E p, q \in Procs :
    /\ orch[q].lastError = CircuitOpenError
    /\ orch[q].pc = "idle"
    /\ orch[p].pc = "inflight"
    /\ orch[p].admittedIn = "HALF_OPEN"
    /\ cb.nextAttemptTime # NULL
    /\ now >= cb.nextAttemptTime

\* the operations in flight that were started as a trial of the HALF_OPEN breaker
Trials == {p \in Procs : orch[p].pc = "inflight" /\ orch[p].admittedIn = "HALF_OPEN"}

(* C3: while the breaker is HALF_OPEN at most one trial operation is in    *)
(* flight.                                                                 *)
C3_SingleTrial == cb.state = "HALF_OPEN" => Cardinality(Trials) <= 1

(* C4: when a trial operation started in HALF_OPEN fails while the breaker *)
(* is HALF_OPEN, the breaker is OPEN afterwards with the reset deadline    *)
(* 30 s after the failure.                                                 *)
C4_TrialFailureReopens ==
  [][ \A p \in Procs :
        (FailStep(p) /\ orch[p].admittedIn = "HALF_OPEN" /\ cb.state = "HALF_OPEN")
          => /\ cb'.state = "OPEN"
             /\ cb'.nextAttemptTime = now + CIRCUIT_RESET_TIMEOUT_MS ]_vars

(* C5: a success while the breaker is HALF_OPEN leaves it CLOSED with an   *)
(* empty failure window, failureCount 0 and no reset deadline; and the     *)
(* breaker goes from OPEN or HALF_OPEN to CLOSED in no other step.         *)
C5_SuccessCloses ==
  [][ /\ \A p \in Procs :
           (SuccessStep(p) /\ cb.state = "HALF_OPEN")
             => /\ cb'.state = "CLOSED"
                /\ cb'.failures = <<>>
                /\ cb'.failureCount = 0
                /\ cb'.nextAttemptTime = NULL
      /\ (cb.state # "CLOSED" /\ cb'.state = "CLOSED")
           => /\ cb.state = "HALF_OPEN"
              /\ \E p \in Procs : SuccessStep(p) ]_vars

\* a trial succeeded and closed the breaker that failures had opened
C5_Witness ==
  /\ cb.state = "CLOSED"
  /\ cb.lastFailureTime # NULL
  /\ cb.failures = <<>>
  /\ \E p \in Procs : orch[p].outcome = "ok" /\ orch[p].admittedIn = "HALF_OPEN"

(* C8: in every call of retryWithBackoff the operation has been invoked at *)
(* most as many times as tokens have been taken from the bucket.           *)
C8_TokenPerAttempt == \A p \in Procs : orch[p].invoked <= orch[p].consumed

----------------------------------------------------------------------------
(* RateLimiter.consume(tokens) called directly, kickPlayer.js lines        *)
(* 277-301, by concurrent callers.  A caller is idle or, in rlwait, asleep *)
(* in consume until the next refill.  n is the amount it asked for, done   *)
(* the number of its calls that returned true, waited whether its current  *)
(* or last call had to sleep, and sawRefill the lastRefill that call found *)
(* when it first had to sleep.                                             *)

Consumers == {"c1", "c2"}
\* the amounts asked for
ConsumeAmounts == {1, 30, 50}
\* the instants at which the bucket is observed
RlTimes == {0, 30000, 60000, 90000, 120000, 240000}

InitConsumer == [pc |-> "idle", n |-> 0, wakeAt |-> NULL, done |-> 0,
                 waited |-> FALSE, sawRefill |-> NULL]

RECURSIVE ConsumeCalls(_)
ConsumeCalls(S) ==
  IF S = {} THEN 0
  ELSE LET c == CHOOSE x \in S : TRUE
       IN  cons[c].done + (IF cons[c].pc = "idle" THEN 0 ELSE 1) + ConsumeCalls(S \ {c})

\* RateLimiter.consume(n) is called
RlConsume(c) ==
  /\ cons[c].pc = "idle"
  /\ ConsumeCalls(Consumers) < MaxConsumes
  /\ \E n \in ConsumeAmounts :
       LET r == Consume(rl, now, n) IN
         /\ rl' = r.rl
         /\ cons' = [cons EXCEPT ![c] =
                       IF r.ok
                         THEN [@ EXCEPT !.n = n, !.done = @ + 1, !.waited = FALSE,
                                        !.sawRefill = NULL]
                         ELSE [@ EXCEPT !.pc = "rlwait", !.n = n, !.wakeAt = r.wakeAt,
                                        !.waited = TRUE, !.sawRefill = r.rl.lastRefill]]
  /\ UNCHANGED <<now, cb, csrf, orch, tok, promises, timers, netVars>>

\* the sleep ends and consume calls itself again (line 299)
RlConsumeRetry(c) ==
  /\ cons[c].pc = "rlwait"
  /\ now >= cons[c].wakeAt
  /\ LET r == Consume(rl, now, cons[c].n) IN
       /\ rl' = r.rl
       /\ cons' = [cons EXCEPT ![c] =
                     IF r.ok
                       THEN [@ EXCEPT !.pc = "idle", !.done = @ + 1, !.wakeAt = NULL]
                       ELSE [@ EXCEPT !.wakeAt = r.wakeAt]]
  /\ UNCHANGED <<now, cb, csrf, orch, tok, promises, timers, netVars>>

TickRl ==
  /\ \E t \in RlTimes : t > now /\ now' = t
  /\ UNCHANGED <<cb, rl, csrf, orch, cons, tok, promises, timers, netVars>>

InitRL ==
  /\ now = 0
  /\ cb = InitCb
  /\ rl = InitRl
  /\ csrf = InitCsrf
  /\ orch = [p \in Procs |-> InitOrchProc]
  /\ cons = [c \in Consumers |-> InitConsumer]
  /\ tok = <<>>
  /\ promises = <<>>
  /\ timers = {}
  /\ NetIdle

NextRL ==
  \/ \E c \in Consumers : RlConsume(c)
  \/ \E c \in Consumers : RlConsumeRetry(c)
  \/ TickRl

SpecRL == InitRL /\ [][NextRL]_vars

(* C6: the balance of the bucket is always between 0 and                   *)
(* RATE_LIMIT_MAX_TOKENS, whatever time passes between calls and however   *)
(* the concurrent callers of consume interleave.                           *)
C6_TokensInRange == 0 <= rl.tokens /\ rl.tokens <= RATE_LIMIT_MAX_TOKENS

\* a refill that met the capacity was followed by a consume, after another
\* caller had found the bucket short
C6_Witness ==
  /\ rl.lastRefill >= 2 * RATE_LIMIT_REFILL_MS
  /\ \E c, d \in Consumers :
       /\ cons[c].pc = "idle" /\ cons[c].done > 0
       /\ rl.tokens + cons[c].n = RATE_LIMIT_MAX_TOKENS
       /\ cons[d].waited

\* consume of caller c returns true in this step
ConsumeReturns(c) == cons'[c].done = cons[c].done + 1

(* C7: consume(n) returns only in a step that deducts exactly n from a     *)
(* balance of at least n; a call that found fewer than n tokens returns    *)
(* only after its sleep to the next refill has ended and a refill has      *)
(* taken place since; until then it stays suspended, and it never fails.   *)
C7_ConsumeBlocksUntilRefill ==
  [][ \A c \in Consumers :
        /\ ConsumeReturns(c) =>
             /\ cons'[c].pc = "idle"
             /\ rl'.tokens >= 0
             /\ \/ rl'.lastRefill = rl.lastRefill /\ rl'.tokens = rl.tokens - cons'[c].n
                \/ /\ rl'.lastRefill = now
                   /\ now - rl.lastRefill >= RATE_LIMIT_REFILL_MS
                   /\ rl'.tokens + cons'[c].n <= RATE_LIMIT_MAX_TOKENS
                   /\ rl'.tokens + cons'[c].n >= rl.tokens
        /\ (ConsumeReturns(c) /\ cons[c].pc = "rlwait") =>
             /\ now >= cons[c].sawRefill + RATE_LIMIT_REFILL_MS
             /\ rl'.lastRefill > cons[c].sawRefill
        /\ cons[c].pc = "rlwait" =>
             \/ cons'[c] = cons[c]
             \/ ConsumeReturns(c)
             \/ cons'[c].pc = "rlwait" /\ cons'[c].wakeAt > now ]_vars

\* a call that had to sleep has returned after a refill
C7_Witness ==
  \E c \in Consumers :
    /\ cons[c].pc = "idle"
    /\ cons[c].waited
    /\ cons[c].done > 0
    /\ rl.lastRefill > cons[c].sawRefill

----------------------------------------------------------------------------
(* CSRFManager, kickPlayer.js lines 305-365.                               *)
(* promises is the sequence of the promises _refreshToken has returned, in *)
(* the order of the calls; csrf.refreshPromise is an index into it.  Each  *)
(* holds its status (pending, resolved, rejected), the token it resolved   *)
(* with, the jar _refreshToken was called with, and who called getToken    *)
(* (a member of Getters, or "timer" for the proactive refresh).            *)
(* A caller of getToken is idle or, in await, suspended on promise prom;   *)
(* owner says that it started that refresh (its finally block clears       *)
(* csrf.refreshPromise).  gets counts its calls that have settled, result  *)
(* and via are the token its last call returned and where it came from     *)
(* (cache, refresh, or error when the call rejected).                      *)

Getters == {"g1", "g2"}
\* the sessions getToken is called with
Jars == {"A", "B"}
\* the instants at which the cache is observed
CsrfTimes == {0, 600000, 900000, 1200000, 1500000}

\* the token getGeneralToken({jar}) resolves with in the i-th refresh: the
\* server hands out a token it has not handed out before
FreshToken(jar, i) == [jar |-> jar, v |-> i]

InitGetter == [pc |-> "idle", prom |-> NULL, owner |-> FALSE, force |-> FALSE,
               jar |-> "", gets |-> 0, result |-> NoToken, via |-> ""]

RECURSIVE GetCalls(_)
GetCalls(S) ==
  IF S = {} THEN 0
  ELSE LET g == CHOOSE x \in S : TRUE
       IN  tok[g].gets + (IF tok[g].pc = "idle" THEN 0 ELSE 1) + GetCalls(S \ {g})

MutUseCache(c, forceRefresh, t) == c.token # NoToken /\ c.expiresAt > t

\* the test of getToken that returns the cached token (lines 310-312)
UseCache(c, forceRefresh, t) ==
  ~forceRefresh /\ c.token # NoToken /\ c.expiresAt > t

MutRefreshInFlight(c) == FALSE

\* the test of getToken that joins the refresh in progress (line 318)
RefreshInFlight(c) == c.refreshPromise # NULL

\* _refreshToken(jar) is called for `who`: getGeneralToken is in flight
StartRefresh(jar, who) ==
  /\ Len(promises) < MaxRefreshes
  /\ promises' = Append(promises, [status |-> "pending", value |-> NoToken,
                                   jar |-> jar, owner |-> who])
  /\ csrf' = [csrf EXCEPT !.refreshPromise = Len(promises) + 1]

\* CSRFManager.getToken(jar, forceRefresh) is called by g
GetToken(g) ==
  /\ tok[g].pc = "idle"
  /\ GetCalls(Getters) < MaxGets
  /\ \E jar \in Jars, forceRefresh \in BOOLEAN :
       LET t == [tok[g] EXCEPT !.jar = jar, !.force = forceRefresh, !.prom = NULL,
                               !.owner = FALSE, !.result = NoToken, !.via = ""]
       IN  IF UseCache(csrf, forceRefresh, now)
             THEN /\ tok' = [tok EXCEPT ![g] = [t EXCEPT !.gets = @ + 1,
                                                         !.result = csrf.token,
                                                         !.via = "cache"]]
                  /\ UNCHANGED <<csrf, promises>>
           ELSE IF RefreshInFlight(csrf)
             THEN /\ tok' = [tok EXCEPT ![g] = [t EXCEPT !.pc = "await",
                                                         !.prom = csrf.refreshPromise]]
                  /\ UNCHANGED <<csrf, promises>>
           ELSE /\ StartRefresh(jar, g)
                /\ tok' = [tok EXCEPT ![g] = [t EXCEPT !.pc = "await",
                                                       !.prom = Len(promises) + 1,
                                                       !.owner = TRUE]]
  /\ UNCHANGED <<now, cb, rl, orch, cons, timers, netVars>>

\* getGeneralToken resolves: _refreshToken fills the cache, arms the timer
\* of the proactive refresh and resolves its promise (lines 339-359)
RefreshResolves(i) ==
  /\ promises[i].status = "pending"
  /\ LET token == FreshToken(promises[i].jar, i) IN
       /\ csrf' = [csrf EXCEPT !.token = token, !.expiresAt = now + CSRF_CACHE_TTL_MS]
       /\ promises' = [promises EXCEPT ![i].status = "resolved", ![i].value = token]
  /\ timers' = timers \cup {[fireAt |-> now + (CSRF_CACHE_TTL_MS - CSRF_PREEMPTIVE_REFRESH_MS),
                             jar |-> promises[i].jar, by |-> i]}
  /\ UNCHANGED <<now, cb, rl, orch, cons, tok, netVars>>

\* getGeneralToken rejects: _refreshToken rethrows (lines 360-363)
RefreshRejects(i) ==
  /\ promises[i].status = "pending"
  /\ promises' = [promises EXCEPT ![i].status = "rejected"]
  /\ UNCHANGED <<now, cb, rl, csrf, orch, cons, tok, timers, netVars>>

MutGetTokenResumes(g) ==
  /\ tok[g].pc = "await"
  /\ promises[tok[g].prom].status # "pending"
  /\ tok' = [tok EXCEPT ![g] =
               [@ EXCEPT !.pc = "idle", !.gets = @ + 1,
                         !.result = promises[tok[g].prom].value,
                         !.via = IF promises[tok[g].prom].status = "resolved"
                                   THEN "refresh" ELSE "error"]]
  /\ csrf' = csrf
  /\ UNCHANGED <<now, cb, rl, orch, cons, promises, timers, netVars>>

\* the await of g on its promise resumes (lines 320, 327-331)
GetTokenResumes(g) ==
  /\ tok[g].pc = "await"
  /\ promises[tok[g].prom].status # "pending"
  /\ tok' = [tok EXCEPT ![g] =
               [@ EXCEPT !.pc = "idle", !.gets = @ + 1,
                         !.result = promises[tok[g].prom].value,
                         !.via = IF promises[tok[g].prom].status = "resolved"
                                   THEN "refresh" ELSE "error"]]
  /\ csrf' = IF tok[g].owner THEN [csrf EXCEPT !.refreshPromise = NULL] ELSE csrf
  /\ UNCHANGED <<now, cb, rl, orch, cons, promises, timers, netVars>>

MutProactiveDue(c, t) == t >= c.expiresAt

\* the test of the timer callback (line 351)
ProactiveDue(c, t) == t + CSRF_PREEMPTIVE_REFRESH_MS >= c.expiresAt

\* the timer armed by _refreshToken fires (lines 350-357): getToken(jar, true)
\* when the cached token expires within CSRF_PREEMPTIVE_REFRESH_MS; that
\* call joins the refresh in progress or starts one
ProactiveTimerFires(tm) ==
  /\ tm \in timers
  /\ now >= tm.fireAt
  /\ timers' = timers \ {tm}
  /\ IF ProactiveDue(csrf, now) /\ ~RefreshInFlight(csrf)
       THEN StartRefresh(tm.jar, "timer")
       ELSE UNCHANGED <<csrf, promises>>
  /\ UNCHANGED <<now, cb, rl, orch, cons, tok, netVars>>

\* the getToken call of the timer resumes: its finally block (line 330)
ProactiveRefreshResumes(i) ==
  /\ promises[i].owner = "timer"
  /\ promises[i].status # "pending"
  /\ csrf.refreshPromise = i
  /\ csrf' = [csrf EXCEPT !.refreshPromise = NULL]
  /\ UNCHANGED <<now, cb, rl, orch, cons, tok, promises, timers, netVars>>

TickCsrf ==
  /\ \E t \in CsrfTimes : t > now /\ now' = t
  /\ UNCHANGED <<cb, rl, csrf, orch, cons, tok, promises, timers, netVars>>

InitCSRF ==
  /\ now = 0
  /\ cb = InitCb
  /\ rl = InitRl
  /\ csrf = InitCsrf
  /\ orch = [p \in Procs |-> InitOrchProc]
  /\ cons = <<>>
  /\ tok = [g \in Getters |-> InitGetter]
  /\ promises = <<>>
  /\ timers = {}
  /\ NetIdle

NextCSRF ==
  \/ \E g \in Getters : GetToken(g)
  \/ \E i \in 1..Len(promises) : RefreshResolves(i)
  \/ \E i \in 1..Len(promises) : RefreshRejects(i)
  \/ \E g \in Getters : GetTokenResumes(g)
  \/ \E tm \in timers : ProactiveTimerFires(tm)
  \/ \E i \in 1..Len(promises) : ProactiveRefreshResumes(i)
  \/ TickCsrf

SpecCSRF == InitCSRF /\ [][NextCSRF]_vars

\* the refreshes whose getGeneralToken call is in flight
PendingRefreshes == {i \in 1..Len(promises) : promises[i].status = "pending"}

\* the callers suspended on a refresh that is in flight
WaitingOn(i) == {g \in Getters : tok[g].pc = "await" /\ tok[g].prom = i}

(* C9: at most one refresh is in flight at any time; it is the one         *)
(* csrf.refreshPromise names; exactly one of the getToken calls suspended  *)
(* on it started it and the others joined it; and all calls that returned  *)
(* from the same refresh returned the same token.                          *)
C9_RefreshCoalesced ==
  /\ Cardinality(PendingRefreshes) <= 1
  /\ \A i \in PendingRefreshes :
       /\ csrf.refreshPromise = i
       /\ Cardinality({g \in WaitingOn(i) : tok[g].owner})
            = (IF promises[i].owner = "timer" THEN 0 ELSE 1)
  /\ \A g, h \in Getters :
       (tok[g].via = "refresh" /\ tok[h].via = "refresh" /\ tok[g].prom = tok[h].prom)
         => tok[g].result = tok[h].result

\* two calls made on a cold cache shared the only refresh that was started
\* and returned its token
C9_Witness ==
  \E g, h \in Getters :
    /\ g # h
    /\ Len(promises) = 1
    /\ tok[g].via = "refresh" /\ tok[h].via = "refresh"
    /\ tok[g].gets = 1 /\ tok[h].gets = 1
    /\ ~tok[g].force /\ ~tok[h].force
    /\ tok[g].owner /\ ~tok[h].owner
    /\ tok[g].result = tok[h].result
    /\ tok[g].result # NoToken

\* g calls getToken in this step
GetTokenStep(g) == tok[g].pc = "idle" /\ tok'[g] # tok[g]

\* the call of g returns or throws in this step after waiting for a refresh
GetTokenResumeStep(g) == tok[g].pc = "await" /\ tok'[g].pc = "idle"

(* C10: getToken returns the cached token, starting no refresh, exactly    *)
(* when a token is cached, its expiry lies in the future and forceRefresh  *)
(* is false; in every other case the call waits for a refresh, the one in  *)
(* flight or one it starts, and what it returns is the token of that       *)
(* refresh.                                                                *)
C10_CacheOnlyWhenFresh ==
  [][ \A g \in Getters :
        /\ GetTokenStep(g) =>
             IF ~tok'[g].force /\ csrf.token # NoToken /\ csrf.expiresAt > now
               THEN /\ tok'[g].pc = "idle"
                    /\ tok'[g].via = "cache"
                    /\ tok'[g].result = csrf.token
                    /\ promises' = promises
               ELSE /\ tok'[g].pc = "await"
                    /\ tok'[g].via = ""
                    /\ IF csrf.refreshPromise # NULL
                         THEN tok'[g].prom = csrf.refreshPromise /\ promises' = promises
                         ELSE /\ tok'[g].prom = Len(promises) + 1
                              /\ Len(promises') = Len(promises) + 1
                              /\ promises'[tok'[g].prom].status = "pending"
        /\ GetTokenResumeStep(g) =>
             /\ tok'[g].via \in {"refresh", "error"}
             /\ tok'[g].via = "refresh" =>
                  /\ promises[tok[g].prom].status = "resolved"
                  /\ tok'[g].result = promises[tok[g].prom].value ]_vars

\* one call returned the cached token, a forced call made while that token
\* was still valid returned a newer one from a refresh
C10_Witness ==
  \E g, h \in Getters :
    /\ tok[g].via = "cache" /\ ~tok[g].force
    /\ tok[h].via = "refresh" /\ tok[h].force
    /\ tok[h].result # tok[g].result
    /\ tok[g].result # NoToken
    /\ csrf.token = tok[h].result
    /\ now < CSRF_CACHE_TTL_MS

\* steps of SpecCSRF: refresh i succeeds; the proactive timer tm fires
RefreshSuccessStep(i) ==
  /\ i \in 1..Len(promises)
  /\ promises[i].status = "pending"
  /\ promises'[i].status = "resolved"
TimerFiresStep(tm) == tm \in timers /\ tm \notin timers'

\* C12: a successful refresh caches its token with expiresAt = now + 20 min
\* and arms a timer for now + 15 min, before that expiry; when the timer
\* fires while the expiry is still the one its refresh set, a refresh is in
\* progress after the step: a new one for the timer's session when none was
\* in progress.
C12_ProactiveRefresh ==
  [][ /\ \A i \in 1..Len(promises) : RefreshSuccessStep(i) =>
           /\ csrf'.token = promises'[i].value
           /\ csrf'.expiresAt = now + CSRF_CACHE_TTL_MS
           /\ \E tm \in timers' \ timers :
                /\ tm.by = i
                /\ tm.jar = promises[i].jar
                /\ tm.fireAt = now + 900000
                /\ tm.fireAt < csrf'.expiresAt
      /\ \A tm \in timers : TimerFiresStep(tm) =>
           /\ now >= tm.fireAt
           /\ (csrf.expiresAt = tm.fireAt + CSRF_PREEMPTIVE_REFRESH_MS =>
                 /\ csrf'.refreshPromise # NULL
                 /\ (csrf.refreshPromise = NULL =>
                       /\ Len(promises') = Len(promises) + 1
                       /\ promises'[csrf'.refreshPromise] =
                            [status |-> "pending", value |-> NoToken,
                             jar |-> tm.jar, owner |-> "timer"]))
    ]_vars

\* the refresh started by the timer has replaced the token while the token
\* of the first refresh (cached at 0, expiring at 20 min) was still valid
C12_Witness ==
  /\ now < CSRF_CACHE_TTL_MS
  /\ \E i \in 1..Len(promises) :
       /\ promises[i].owner = "timer"
       /\ promises[i].status = "resolved"
       /\ csrf.token = promises[i].value
       /\ csrf.expiresAt = now + CSRF_CACHE_TTL_MS

----------------------------------------------------------------------------
(***************************************************************************)
(* Token acquisition: getGeneralToken(jar) of lib/util/getGeneralToken.js  *)
(* probes CSRF_ENDPOINTS one after the other.  A probe is one dispatcher   *)
(* call without an x-csrf-token request header, so the dispatcher answers  *)
(* it with the response as it came, or throws.                             *)
(***************************************************************************)

\* the resilience core is not running.
CoreIdle ==
  /\ now = 0
  /\ cb = InitCb
  /\ rl = InitRl
  /\ csrf = InitCsrf
  /\ orch = [p \in Procs |-> InitOrchProc]
  /\ cons = <<>>
  /\ tok = <<>>
  /\ promises = <<>>
  /\ timers = {}

CSRF_ENDPOINTS == <<"auth/logout", "groups/users", "friends/unfriend", "avatar/wear">>

\* what one probe request can come back with: a response carrying the
\* header, a response without it (or with an empty one), a thrown error.
ProbeOutcomes == {"token", "none", "error"}

\* the jar argument and options.jar.session: "" is undefined
ProbeJars == {"", "A"}
GlobalSessions == {"", "S"}

InitProbe == [pc |-> "idle", jar |-> "", session |-> "", idx |-> 0, log |-> <<>>,
              result |-> NoToken, error |-> ""]

MutHasSession(jar, session) == TRUE

\* the negation of: !jar && !options.jar.session
HasSession(jar, session) == ~(jar = "" /\ session = "")

\* the value tryGetTokenFromEndpoint resolves with for the k-th endpoint:
\* the header when it is truthy, null otherwise and on any error
tryGetTokenFromEndpoint(k, outcome, jar) ==
  IF outcome = "token" THEN [jar |-> jar, v |-> k] ELSE NoToken

\* getGeneralToken up to its first await
GetGeneralTokenStart(jar, session) ==
  /\ probe.pc = "idle"
  /\ probe' = IF ~HasSession(jar, session)
              THEN [probe EXCEPT !.pc = "thrown", !.jar = jar, !.session = session,
                                 !.error = "Cannot get CSRF: You are not logged in."]
              ELSE [probe EXCEPT !.pc = "probing", !.jar = jar, !.session = session,
                                 !.idx = 1]
  /\ UNCHANGED <<coreVars, disp, px, kick, gu, conf, fn, step, blk>>

\* the awaited probe settles; the loop returns, moves on, or ends
ProbeSettles(outcome) ==
  /\ probe.pc = "probing"
  /\ LET k == probe.idx
         token == tryGetTokenFromEndpoint(k, outcome, probe.jar)
         logged == Append(probe.log, [endpoint |-> CSRF_ENDPOINTS[k], outcome |-> outcome])
     IN probe' =
          IF token # NoToken
          THEN [probe EXCEPT !.pc = "returned", !.log = logged, !.result = token]
          ELSE IF k < Len(CSRF_ENDPOINTS)
          THEN [probe EXCEPT !.idx = k + 1, !.log = logged]
          ELSE [probe EXCEPT !.pc = "thrown", !.log = logged,
                             !.error = "Failed to obtain X-CSRF-TOKEN from all endpoints."]
  /\ UNCHANGED <<coreVars, disp, px, kick, gu, conf, fn, step, blk>>

InitToken ==
  /\ CoreIdle
  /\ fn = <<>> /\ step = <<>> /\ blk = <<>>
  /\ probe = InitProbe
  /\ disp = <<>>
  /\ px = <<>>
  /\ kick = <<>>
  /\ gu = <<>>
  /\ conf = <<>>

NextToken ==
  \/ \E jar \in ProbeJars, session \in GlobalSessions : GetGeneralTokenStart(jar, session)
  \/ \E outcome \in ProbeOutcomes : ProbeSettles(outcome)

SpecToken == InitToken /\ [][NextToken]_vars

\* C11: the probes issued so far are the first endpoints of the list in list
\* order; no probe follows one that carried a token; the call returns exactly
\* the token of its last probe; it throws the acquisition error only after
\* four token-less probes; without any session it throws with no probe made.
C11_ProbesInOrder ==
  /\ Len(probe.log) <= Len(CSRF_ENDPOINTS)
  /\ \A i \in 1..Len(probe.log) :
       /\ probe.log[i].endpoint = CSRF_ENDPOINTS[i]
       /\ (i < Len(probe.log) => probe.log[i].outcome # "token")
  /\ (probe.pc = "probing" =>
        /\ probe.idx = Len(probe.log) + 1
        /\ \A i \in 1..Len(probe.log) : probe.log[i].outcome # "token")
  /\ (probe.pc = "returned" =>
        /\ probe.log # <<>>
        /\ probe.log[Len(probe.log)].outcome = "token"
        /\ probe.result = [jar |-> probe.jar, v |-> Len(probe.log)])
  /\ (probe.pc = "thrown" =>
        IF probe.jar = "" /\ probe.session = ""
        THEN probe.log = <<>> /\ probe.error = "Cannot get CSRF: You are not logged in."
        ELSE /\ Len(probe.log) = Len(CSRF_ENDPOINTS)
             /\ \A i \in 1..Len(probe.log) : probe.log[i].outcome # "token"
             /\ probe.error = "Failed to obtain X-CSRF-TOKEN from all endpoints.")
  /\ (probe.jar = "" /\ probe.session = "" => probe.pc \in {"idle", "thrown"})

\* a probe errored, the next had no header, the third carried the token
C11_Witness ==
  /\ probe.pc = "returned"
  /\ Len(probe.log) = 3
  /\ probe.log[1].outcome = "error"
  /\ probe.log[2].outcome = "none"

----------------------------------------------------------------------------
(***************************************************************************)
(* The proxy middleware (lib/util/middleware/proxyMiddleware.js).          *)
(*                                                                         *)
(* A URL is the text form ++ host ++ path ++ query ++ hash, kept as its    *)
(* parts (TLA+ has no string concatenation); the path is never empty.      *)
(* form "" is text that starts with neither "//" nor "http(s)://".         *)
(* Strings that JavaScript treats as falsy are "".                         *)
(***************************************************************************)

UrlForms == {"//", "https://", "http://", ""}
Hosts == {"api.example.com", "cdn.example.org"}
Paths == {"/v1/x", "/"}
Queries == {"", "?a=1"}
Hashes == {"", "#f"}
Urls == [form : UrlForms, host : Hosts, path : Paths, query : Queries, hash : Hashes]

\* request headers: the object opt.headers, or undefined
NoHeaders == [defined |-> FALSE, csrfKey |-> "", csrf |-> 0, cookie |-> "",
              proxykey |-> "", hostname |-> "", xcountry |-> ""]
EmptyHeaders == [NoHeaders EXCEPT !.defined = TRUE]

\* proxyConfig.getProxyConfig(): the process-wide configuration
GlobalConfigs ==
  [enabled : BOOLEAN, key : {"", "k1"}, country : {"", "us"},
   url : {"", "https://proxy.test"}, domains : {{"api.example.com"}},
   fallback : BOOLEAN]

\* opt.proxy: `set` holds the fields the override defines (not null/undefined)
NoOverride == [present |-> FALSE, set |-> {},
               val |-> [enabled |-> FALSE, key |-> "", country |-> "", url |-> "",
                        domains |-> {}, fallback |-> FALSE]]
Override(set, val) == [present |-> TRUE, set |-> set, val |-> val]
OverrideVals ==
  [enabled : BOOLEAN, key : {"", "k2"}, country : {"de"},
   url : {"https://proxy2.test"}, domains : {{"cdn.example.org"}},
   fallback : {FALSE}]
OverrideSets == {{}, {"enabled"}, {"key"}, {"url"}, {"country"}, {"domains"},
                 {"fallback"}, {"enabled", "key", "url"}}
Overrides == {NoOverride} \cup {Override(f, v) : f \in OverrideSets, v \in OverrideVals}

\* getEffectiveConfig returns null
NoConfig == [null |-> TRUE, enabled |-> FALSE, key |-> "", country |-> "", url |-> "",
             domains |-> {}, fallback |-> FALSE]
SomeConfig(c) == [null |-> FALSE, enabled |-> c.enabled, key |-> c.key,
                  country |-> c.country, url |-> c.url, domains |-> c.domains,
                  fallback |-> c.fallback]

\* requestOptions.proxy.f ?? globalConfig.f
Coalesce(o, g, f) == IF f \in o.set THEN o.val[f] ELSE g[f]

MutGetEffectiveConfig(g, o) == IF g.enabled /\ g.key # "" THEN SomeConfig(g) ELSE NoConfig

getEffectiveConfig(g, o) ==
  IF ~o.present THEN (IF g.enabled /\ g.key # "" THEN SomeConfig(g) ELSE NoConfig)
  ELSE IF "enabled" \in o.set /\ ~o.val.enabled THEN NoConfig
  ELSE LET e == [enabled |-> Coalesce(o, g, "enabled"), key |-> Coalesce(o, g, "key"),
                 country |-> Coalesce(o, g, "country"), url |-> Coalesce(o, g, "url"),
                 domains |-> Coalesce(o, g, "domains"),
                 fallback |-> Coalesce(o, g, "fallback")]
       IN  IF e.enabled /\ e.key # "" THEN SomeConfig(e) ELSE NoConfig

\* the hostname both parsers extract: the text between "//" and the next
\* "/", or new URL(url).hostname; "" when the text is neither form
ExtractHostname(url) == IF url.form = "" THEN "" ELSE url.host

shouldProxyWithConfig(url, config) ==
  IF ~config.enabled \/ config.key = "" THEN FALSE
  ELSE IF url.form = "" THEN FALSE
  ELSE ExtractHostname(url) \in config.domains

\* a rewritten URL is `${proxyBaseUrl}${path}`: form is "", host the base URL
ProxyUrl(base, path, query, hash) ==
  [form |-> "", host |-> base, path |-> path, query |-> query, hash |-> hash]

MutTransformUrlWithConfig(url, config) ==
  [threw |-> FALSE, url |-> ProxyUrl(config.url, url.path, "", "")]

\* transformUrlWithConfig: the URL, or the throw of line 227
transformUrlWithConfig(url, config) ==
  IF ~shouldProxyWithConfig(url, config) THEN [threw |-> FALSE, url |-> url]
  ELSE IF config.url = "" THEN [threw |-> TRUE, url |-> url]
  ELSE [threw |-> FALSE, url |-> ProxyUrl(config.url, url.path, url.query, url.hash)]

\* getProxyHeadersWithConfig merged into headers h by Object.assign
getProxyHeadersWithConfig(h, originalUrl, config) ==
  IF ~shouldProxyWithConfig(originalUrl, config) THEN h
  ELSE IF ExtractHostname(originalUrl) = "" THEN h
  ELSE [h EXCEPT !.proxykey = config.key, !.hostname = ExtractHostname(originalUrl),
                 !.xcountry = IF config.country # "" THEN config.country ELSE @]

\* applyProxy({url, options}) for options.headers = h, options.proxy = o.
\* headers: the headers of the returned options; optHeaders: the caller's
\* options.headers after the call ({...opt} copies one level, so an existing
\* headers object is shared and Object.assign writes into it).
applyProxy(url, h, o, g) ==
  LET effectiveConfig == getEffectiveConfig(g, o)
      unchanged == [threw |-> FALSE, url |-> url, headers |-> h, optHeaders |-> h,
                    originalUrl |-> url, proxyApplied |-> FALSE,
                    effectiveConfig |-> NoConfig]
      t == transformUrlWithConfig(url, effectiveConfig)
      merged == getProxyHeadersWithConfig(IF h.defined THEN h ELSE EmptyHeaders,
                                          url, effectiveConfig)
  IN  IF effectiveConfig.null THEN unchanged
      ELSE IF ~shouldProxyWithConfig(url, effectiveConfig) THEN unchanged
      ELSE IF t.threw THEN [unchanged EXCEPT !.threw = TRUE]
      ELSE [threw |-> FALSE, url |-> t.url, headers |-> merged,
            optHeaders |-> IF h.defined THEN merged ELSE h,
            originalUrl |-> url, proxyApplied |-> TRUE,
            effectiveConfig |-> effectiveConfig]

\* header objects a caller passes: none, or one with its own entries
CallerHeaders == {NoHeaders, [EmptyHeaders EXCEPT !.csrfKey = "x-csrf-token", !.csrf = 1]}

NoResult == [threw |-> FALSE, url |-> ProxyUrl("", "/", "", ""), headers |-> NoHeaders,
             optHeaders |-> NoHeaders, originalUrl |-> ProxyUrl("", "/", "", ""),
             proxyApplied |-> FALSE, effectiveConfig |-> NoConfig]

\* one evaluation of applyProxy on drawn arguments
ApplyProxyCall ==
  /\ px.pc = "args"
  /\ px' = [px EXCEPT !.pc = "returned",
                      !.result = applyProxy(px.url, px.headers, px.proxy, px.global)]
  /\ UNCHANGED <<coreVars, probe, disp, kick, gu, conf, fn, step, blk>>

InitProxy ==
  /\ CoreIdle
  /\ fn = <<>> /\ step = <<>> /\ blk = <<>>
  /\ probe = <<>>
  /\ disp = <<>>
  /\ kick = <<>>
  /\ gu = <<>>
  /\ conf = <<>>
  /\ \E url \in Urls, h \in CallerHeaders, o \in Overrides, g \in GlobalConfigs :
       px = [pc |-> "args", url |-> url, headers |-> h, proxy |-> o, global |-> g,
             result |-> NoResult]

NextProxy == ApplyProxyCall

SpecProxy == InitProxy /\ [][NextProxy]_vars

\* the configuration the claims speak of: the process-wide default with the
\* fields of the per-request override laid over it
MergedConfig(g, o) ==
  [f \in {"enabled", "key", "country", "url", "domains", "fallback"} |->
     IF o.present /\ f \in o.set THEN o.val[f] ELSE g[f]]
ShouldBeProxied(x) ==
  LET m == MergedConfig(x.global, x.proxy)
  IN  m.enabled /\ m.key # "" /\ x.url.form # "" /\ x.url.host \in m.domains

\* C18 (as claimed): applyProxy returns proxyApplied = true with the URL
\* rewritten and the proxy headers added exactly when the merged configuration
\* is enabled, has a key and lists the URL's host; otherwise it returns the
\* URL and the headers unchanged.
C18_ProxiedIff ==
  px.pc = "returned" =>
    IF ShouldBeProxied(px)
    THEN /\ ~px.result.threw
         /\ px.result.proxyApplied
         /\ px.result.url # px.url
         /\ px.result.headers.proxykey # ""
    ELSE /\ ~px.result.threw
         /\ ~px.result.proxyApplied
         /\ px.result.url = px.url
         /\ px.result.headers = px.headers

\* C18 (amended): the same, for a merged configuration that has a proxy base
\* URL; without one applyProxy throws where it would have proxied.
C18_ProxiedIffHasUrl ==
  px.pc = "returned" =>
    IF ShouldBeProxied(px)
    THEN IF MergedConfig(px.global, px.proxy).url = ""
         THEN px.result.threw
         ELSE /\ ~px.result.threw
              /\ px.result.proxyApplied
              /\ px.result.url # px.url
              /\ px.result.headers.proxykey # ""
    ELSE /\ ~px.result.threw
         /\ ~px.result.proxyApplied
         /\ px.result.url = px.url
         /\ px.result.headers = px.headers

\* disabled by default, enabled by the override: the request is proxied
C18_Witness ==
  /\ px.pc = "returned"
  /\ px.result.proxyApplied
  /\ ~px.global.enabled
  /\ px.proxy.present

\* C19: a proxied request goes to base ++ path ++ query ++ hash of the
\* original URL and carries proxykey = key, hostname = original host, and
\* x-country exactly when a country is configured.
C19_RewriteAndHeaders ==
  (px.pc = "returned" /\ px.result.proxyApplied) =>
    LET m == MergedConfig(px.global, px.proxy) IN
      /\ px.result.url = [form |-> "", host |-> m.url, path |-> px.url.path,
                          query |-> px.url.query, hash |-> px.url.hash]
      /\ m.url # ""
      /\ px.result.headers.proxykey = m.key
      /\ px.result.headers.hostname = px.url.host
      /\ px.result.headers.xcountry = m.country
      /\ px.result.headers.csrf = px.headers.csrf

\* //api.example.com/v1/x?a=1#f through a proxy without a country
C19_Witness ==
  /\ px.pc = "returned"
  /\ px.result.proxyApplied
  /\ px.url.form = "//"
  /\ px.url.path = "/v1/x"
  /\ px.url.query # ""
  /\ px.url.hash # ""
  /\ px.result.headers.xcountry = ""

----------------------------------------------------------------------------
(***************************************************************************)
(* The dispatcher: exports.func of lib/util/http.js.  One logical call is  *)
(* a chain of promise handlers that re-enters exports.func with the same   *)
(* args object; `stack` holds the invocations that are waiting, the last   *)
(* one being the one whose request is on the wire.  The handlers between   *)
(* two responses run as one step.  The verification cookie fragment and    *)
(* the x-api-key header of http() do not enter any decision and are left   *)
(* out; cache.add (lib/cache) is not part of the call's result.            *)
(***************************************************************************)

\* opt.jar: the caller's session "A", a falsy value under an own key
\* ("null"), no key at all ("absent"), or the global options.jar ("G")
Truthy(jar) == jar \in {"A", "G"}

\* Object.fromEntries(... k.toLowerCase() ...) of http() on the headers
LowerCaseKeys(h) ==
  IF h.defined /\ h.csrfKey = "X-CSRF-TOKEN" THEN [h EXCEPT !.csrfKey = "x-csrf-token"]
  ELSE h

\* Object.hasOwn(opt.headers ?? {}, 'x-csrf-token')
HasCsrfHeader(h) == h.defined /\ h.csrfKey = "x-csrf-token"

\* if (url.indexOf('http') !== 0) url = 'https:' + url
NormalizeUrl(url) == IF url.form = "//" THEN [url EXCEPT !.form = "https://"] ELSE url

\* http(url, opt): opt as http leaves it, and the request handed to
\* postman-request (or the throw of applyProxy)
http(url, opt, g, sessionOnly) ==
  LET h1 == LowerCaseKeys(opt.headers)
      jar1 == IF opt.jar = "null" THEN "G" ELSE opt.jar
      cookies == sessionOnly /\ Truthy(jar1)
      h2 == IF cookies
            THEN [(IF h1.defined THEN h1 ELSE EmptyHeaders) EXCEPT !.cookie = jar1]
            ELSE h1
      jar2 == IF cookies THEN "null" ELSE jar1
      ap == applyProxy(NormalizeUrl(url), h2, opt.proxy, g)
  IN  [threw |-> ap.threw,
       opt |-> [opt EXCEPT !.jar = jar2, !.headers = ap.optHeaders],
       req |-> [url |-> ap.url, headers |-> ap.headers, proxied |-> ap.proxyApplied,
                session |-> IF h2.cookie # "" THEN h2.cookie
                            ELSE IF Truthy(jar2) THEN jar2 ELSE "none"]]

\* removeProxyHeaders: the deletes reach the shared headers object
removeProxyHeaders(h) ==
  IF h.defined THEN [h EXCEPT !.proxykey = "", !.hostname = "", !.xcountry = ""] ELSE h

MutHandleProxyErrorFallsBack(attempt, effectiveConfig) == attempt = 0

\* handleProxyError resolves with fallback arguments (does not reject)
HandleProxyErrorFallsBack(attempt, effectiveConfig) ==
  ~(attempt > 0 \/ effectiveConfig.null \/ ~effectiveConfig.fallback)

\* a request as it went out, with the path and the invocation that sent it
Sent(req, kind, depth) ==
  [kind |-> kind, depth |-> depth, url |-> req.url, headers |-> req.headers,
   proxied |-> req.proxied, session |-> req.session]

NoFrame == [depth |-> 0, jar |-> "absent", full |-> FALSE, pc |-> "main", err |-> "",
            fbHasCsrf |-> FALSE]

\* exports.func(args) up to the request of http(args.url, opt): a new
\* invocation with its locals jar, depth, full
Invoke(d) ==
  LET r == http(d.url, [d.opt EXCEPT !.full = TRUE], d.global, d.sessionOnly)
      frame == [NoFrame EXCEPT !.depth = d.depth, !.jar = d.opt.jar, !.full = d.opt.full]
  IN  IF r.threw
      THEN [d EXCEPT !.pc = "threw", !.opt.full = TRUE, !.stack = <<>>,
                     !.result = [kind |-> "error", from |-> 0,
                                 error |-> "Proxy URL is required when proxy is enabled"]]
      ELSE [d EXCEPT !.pc = "running", !.opt = r.opt,
                     !.stack = Append(@, frame),
                     !.sent = Append(@, Sent(r.req, "main", d.depth))]

Pop(stack) == SubSeq(stack, 1, Len(stack) - 1)
Top(stack) == stack[Len(stack)]

\* the last invocation resolves with `value`: every waiting invocation
\* returned the promise of the one it started, so all resolve with it
Resolve(d, value) == [d EXCEPT !.pc = "resolved", !.stack = <<>>, !.result = value]

\* the fallback request of the last invocation: http(fallbackArgs.url,
\* fallbackArgs.options) on a one-level copy of opt (lines 149-151)
FallbackSend(d, ap, err) ==
  LET cleaned == [d.opt EXCEPT !.headers = removeProxyHeaders(@)]
      r == http(NormalizeUrl(ap.originalUrl), cleaned, d.global, d.sessionOnly)
      n == Len(d.stack)
  IN  [d EXCEPT !.opt = cleaned,
                !.stack[n].pc = "fallback",
                !.stack[n].err = err,
                !.stack[n].fbHasCsrf = HasCsrfHeader(r.opt.headers),
                !.sent = Append(@, Sent(r.req, "fallback", d.stack[n].depth))]

RECURSIVE Catch(_, _), FrameRejected(_, _)

\* the .catch handler of the last invocation runs with err (lines 134-186)
Catch(d, err) ==
  LET ap == applyProxy(d.url, d.opt.headers, d.opt.proxy, d.global)
      d1 == [d EXCEPT !.opt.headers = ap.optHeaders]
      d2 == [d1 EXCEPT !.fallbackAttempted = TRUE]
  IN  IF ap.proxyApplied /\ ~d.fallbackAttempted
      THEN IF HandleProxyErrorFallsBack(0, ap.effectiveConfig)
           THEN FallbackSend(d2, ap, err)
           ELSE FrameRejected(d2, err)
      ELSE FrameRejected(d1, err)

\* the promise of the last invocation rejects with err: the invocation that
\* started it from its .then handler catches err, the one that started it
\* from its fallback handler rethrows its own original error (line 180)
FrameRejected(d, err) ==
  LET rest == Pop(d.stack)
      popped == [d EXCEPT !.stack = rest]
  IN  IF rest = <<>>
      THEN [d EXCEPT !.pc = "rejected", !.stack = <<>>,
                     !.result = [kind |-> "error", from |-> 0, error |-> err]]
      ELSE IF Top(rest).pc = "mainRec" THEN Catch(popped, err)
      ELSE FrameRejected(popped, Top(rest).err)

\* opt.jar = jar: assigning undefined still creates the own key 'jar'
AssignJar(jar) == IF jar = "absent" THEN "null" ELSE jar

\* the refresh-and-retry step (lines 114-121 and 158-164): the new token and
\* the invocation's jar go back into opt, args.depth grows, exports.func
\* is entered again
RefreshAndRetry(d, token, waitingAs) ==
  LET n == Len(d.stack)
  IN  Invoke([d EXCEPT !.opt.headers.csrf = token,
                       !.opt.jar = AssignJar(d.stack[n].jar),
                       !.depth = d.stack[n].depth + 1,
                       !.refreshes = @ + 1,
                       !.stack[n].pc = waitingAs])

\* what the network answers a request with: 200, 403 with a fresh
\* x-csrf-token header, 403 without one, 302 to the login page, or an error
Responses == {"ok", "stale", "forbidden", "login", "neterr"}

DispatchUrls == {u \in Urls : u.form \in {"//", "https://"} /\ u.path = "/v1/x"
                              /\ u.query = "" /\ u.hash = ""}
DispatchJars == {"A", "null", "absent"}
DispatchHeaders ==
  {NoHeaders, EmptyHeaders,
   [EmptyHeaders EXCEPT !.csrfKey = "X-CSRF-TOKEN", !.csrf = 1],
   [EmptyHeaders EXCEPT !.csrfKey = "x-csrf-token", !.csrf = 1]}
DispatchConfigs == {g \in GlobalConfigs : g.key = "k1" /\ g.country = ""}
DispatchOverrides ==
  {NoOverride,
   Override({"enabled"}, [NoOverride.val EXCEPT !.enabled = FALSE]),
   Override({"fallback"}, [NoOverride.val EXCEPT !.fallback = FALSE])}

NoValue == [kind |-> "none", from |-> 0, error |-> ""]
InitDisp ==
  [pc |-> "idle", url |-> ProxyUrl("", "/", "", ""), ignoreLoginError |-> FALSE,
   depth |-> 0, fallbackAttempted |-> FALSE,
   opt |-> [jar |-> "absent", headers |-> NoHeaders, full |-> FALSE, proxy |-> NoOverride],
   asked |-> [jar |-> "absent", headers |-> NoHeaders, full |-> FALSE, proxy |-> NoOverride],
   global |-> NoOverride.val, sessionOnly |-> FALSE,
   stack |-> <<>>, sent |-> <<>>, got |-> <<>>, refreshes |-> 0, result |-> NoValue]

\* the caller calls http({url, options, ignoreLoginError})
HttpFuncCall ==
  /\ disp.pc = "idle"
  /\ \E url \in DispatchUrls, jar \in DispatchJars, h \in DispatchHeaders,
        o \in DispatchOverrides, g \in DispatchConfigs,
        full \in BOOLEAN, ignore \in BOOLEAN, sessionOnly \in BOOLEAN :
       LET opt == [jar |-> jar, headers |-> h, full |-> full, proxy |-> o]
       IN  disp' = Invoke([InitDisp EXCEPT !.url = url, !.ignoreLoginError = ignore,
                                            !.opt = opt, !.asked = opt, !.global = g,
                                            !.sessionOnly = sessionOnly])
  /\ UNCHANGED <<coreVars, probe, px, kick, gu, conf, fn, step, blk>>

\* the value an invocation resolves with: full ? res : res.body
Delivered(d, frame) ==
  [kind |-> IF frame.full THEN "full" ELSE "body", from |-> Len(d.sent), error |-> ""]

MutRefreshCapReached(depth) == depth >= 3

\* if (depth >= 2): no further refresh (lines 106 and 154)
RefreshCapReached(depth) == depth >= 2

\* the token a stale-CSRF response carries: one not seen before
ResponseToken(d) == Len(d.sent) + 1

\* the request of http(args.url, opt) settles: the .then handler of lines
\* 101-133 and, when it throws or the request failed, the .catch handlers
MainResponds(resp) ==
  /\ disp.pc = "running"
  /\ Top(disp.stack).pc = "main"
  /\ LET frame == Top(disp.stack)
         d == [disp EXCEPT !.got = Append(@, resp)]
     IN  disp' =
           IF resp = "neterr" THEN Catch(d, "request failed")
           ELSE IF resp = "stale" /\ HasCsrfHeader(d.opt.headers)
           THEN IF RefreshCapReached(frame.depth)
                THEN Catch(d, "could not refresh XCSRF token")
                ELSE RefreshAndRetry(d, ResponseToken(d), "mainRec")
           ELSE IF resp = "login" /\ ~d.ignoreLoginError
           THEN Catch(d, "You are not logged in")
           ELSE Resolve(d, Delivered(d, frame))
  /\ UNCHANGED <<coreVars, probe, px, kick, gu, conf, fn, step, blk>>

\* the fallback request settles: the handlers of lines 151-181
FallbackResponds(resp) ==
  /\ disp.pc = "running"
  /\ Top(disp.stack).pc = "fallback"
  /\ LET frame == Top(disp.stack)
         d == [disp EXCEPT !.got = Append(@, resp)]
     IN  disp' =
           IF resp = "neterr" THEN FrameRejected(d, frame.err)
           ELSE IF resp = "stale" /\ frame.fbHasCsrf
           THEN IF RefreshCapReached(frame.depth)
                THEN FrameRejected(d, frame.err)
                ELSE RefreshAndRetry(d, ResponseToken(d), "fbRec")
           ELSE IF resp = "login" /\ ~d.ignoreLoginError
           THEN FrameRejected(d, frame.err)
           ELSE Resolve(d, Delivered(d, frame))
  /\ UNCHANGED <<coreVars, probe, px, kick, gu, conf, fn, step, blk>>

InitHttp ==
  /\ CoreIdle
  /\ fn = <<>> /\ step = <<>> /\ blk = <<>>
  /\ probe = <<>>
  /\ px = <<>>
  /\ kick = <<>>
  /\ gu = <<>>
  /\ conf = <<>>
  /\ disp = InitDisp

NextHttp ==
  \/ HttpFuncCall
  \/ \E resp \in Responses : MainResponds(resp)
  \/ \E resp \in Responses : FallbackResponds(resp)

SpecHttp == InitHttp /\ [][NextHttp]_vars

\* steps and requests of SpecHttp the claims speak of
Last(q) == q[Len(q)]
ResponseStep(resp) == Len(disp'.got) = Len(disp.got) + 1 /\ Last(disp'.got) = resp
CarriedToken(req) == req.headers.defined /\ req.headers.csrfKey = "x-csrf-token"
FallbackRequests == {i \in 1..Len(disp.sent) : disp.sent[i].kind = "fallback"}
EffectiveFallback ==
  LET m == MergedConfig(disp.global, disp.asked.proxy)
  IN  m.enabled /\ m.key # "" /\ m.fallback /\ disp.url.host \in m.domains

\* C13: when a request that carried x-csrf-token: T1 is answered by 403 with
\* header x-csrf-token: T2 (fewer than two refreshes so far), the call does
\* not fail in that step; exactly one more request goes out, for the same
\* URL, with x-csrf-token: T2 and the session of the call's first request; and
\* when that re-send is answered by a response the dispatcher hands back,
\* the caller receives the response of the re-send.
C13_StaleTokenRetriedOnce ==
  [][ /\ (/\ ResponseStep("stale")
          /\ CarriedToken(Last(disp.sent))
          /\ disp.refreshes < 2)
        => /\ disp'.pc = "running"
           /\ Len(disp'.sent) = Len(disp.sent) + 1
           /\ Last(disp'.sent).url = disp.sent[1].url
           /\ Last(disp'.sent).headers.csrf = Len(disp.sent) + 1
           /\ CarriedToken(Last(disp'.sent))
           /\ Last(disp'.sent).session = disp.sent[1].session
      /\ (/\ disp.pc = "running"
          /\ disp.refreshes > 0
          /\ Last(disp.sent).depth = disp.refreshes
          /\ disp'.pc = "resolved")
        => disp'.result.from = Len(disp.sent)
    ]_vars

\* C14: a call makes at most two refresh-and-retry steps, on the main and
\* the fallback path alike; it sends at most four requests; and a call
\* whose every response was a stale-CSRF 403 ended in an error after
\* exactly two refreshes.
C14_RefreshCapped ==
  /\ disp.refreshes <= 2
  /\ Len(disp.sent) <= 4
  /\ (/\ disp.pc \in {"resolved", "rejected"}
      /\ HasCsrfHeader(LowerCaseKeys(disp.asked.headers))
      /\ \A i \in 1..Len(disp.got) : disp.got[i] = "stale")
     => (disp.pc = "rejected" /\ disp.refreshes = 2)

\* every response stale, through the proxy with fallback: two refreshes,
\* three proxied requests and the fallback request, then the error
C14_Witness ==
  /\ disp.pc = "rejected"
  /\ disp.refreshes = 2
  /\ Len(disp.sent) = 4
  /\ \A i \in 1..Len(disp.got) : disp.got[i] = "stale"

\* C15: a 302 to the login page without ignoreLoginError ends the call in
\* that step with the not-logged-in error and no further request; with
\* ignoreLoginError the call never fails with that error.
C15_LoginRedirectFatal ==
  [][ /\ (ResponseStep("login") /\ ~disp.ignoreLoginError)
        => /\ disp'.pc = "rejected"
           /\ disp'.result.error = "You are not logged in"
           /\ disp'.sent = disp.sent
      /\ disp'.ignoreLoginError => disp'.result.error # "You are not logged in"
    ]_vars

\* C16: a call issues no fallback request when the effective configuration
\* has fallback = false or the request is not proxied, and at most one
\* otherwise, however many CSRF retries it makes; once set, the
\* _proxyFallbackAttempted flag stays set.
C16_AtMostOneFallback ==
  /\ Cardinality(FallbackRequests) <= 1
  /\ (~EffectiveFallback => FallbackRequests = {})
  /\ (FallbackRequests # {} => disp.fallbackAttempted)

\* a fallback request and, after it, a CSRF retry in the same call
C16_Witness ==
  /\ Cardinality(FallbackRequests) = 1
  /\ disp.refreshes >= 1
  /\ Last(disp.sent).kind = "main"
  /\ \E i \in FallbackRequests : i < Len(disp.sent)

\* C17: a fallback request goes to the original host over https, not to
\* the proxy base URL, and carries no proxykey, hostname or x-country.
C17_FallbackBypassesProxy ==
  \A i \in FallbackRequests :
    /\ ~disp.sent[i].proxied
    /\ disp.sent[i].url = [disp.url EXCEPT !.form = "https://"]
    /\ disp.sent[i].headers.proxykey = ""
    /\ disp.sent[i].headers.hostname = ""
    /\ disp.sent[i].headers.xcountry = ""

\* an error object with the text that identifies it; a compound error
\* names the two messages it quotes
KickError(id, e) == [id |-> id, e |-> e, orig |-> "", cleanup |-> ""]
NoKickError == KickError("", NoError)

----------------------------------------------------------------------------
(***************************************************************************)
(* guaranteedUnblock (lib/accountsettings/guaranteedUnblock.js): a loop of *)
(* unblock requests sent through the dispatcher.  The dispatcher is built  *)
(* on request.defaults({simple: false}), so it resolves with the body of   *)
(* any response, whatever its status, and rejects only when no response    *)
(* is delivered or when it throws one of its own errors; no rejection      *)
(* carries a statusCode.                                                   *)
(***************************************************************************)

\* `args.retries || 3` (line 119)
DEFAULT_RETRIES == 3

\* args.retries: not given (NULL), 0, or a positive count
RetriesArgs == {NULL, 0, 1, 3}

\* args.token: not given, or the caller's token
TokenArgs == {"", "given"}

\* the status of the response the dispatcher resolves with
ResponseStatuses == {200, 403, 500}

\* what the dispatcher rejects with: a connection error of the request
\* library, or the error of its own CSRF retry (http.js line 112)
DispatchErrors ==
  {KickError("socket hang up", MkErr("ECONNRESET", "Error", 0, 0, 0, FALSE, FALSE, NULL)),
   KickError("Tried 3 times and could not refresh XCSRF token successfully",
             MkErr("", "Error", 0, 0, 0, FALSE, TRUE, NULL))}

\* line 163: `Failed to unblock user after ${maxRetries + 1} attempts:
\* ${lastError?.message || 'Unknown error'}`
FailedToUnblock(maxRetries, lastError) ==
  [id |-> "Failed to unblock user after N attempts", orig |-> lastError.id,
   cleanup |-> "", n |-> maxRetries + 1,
   e |-> MkErr("", "Error", 0, 0, lastError.e.msgHttp, lastError.e.msgTimeout,
               lastError.e.msgCsrf, NULL)]

InitGu ==
  [pc |-> "idle", retries |-> NULL, maxRetries |-> 0, attempt |-> 0, token |-> "",
   lastError |-> NoKickError, requests |-> 0, status |-> 0, error |-> NoKickError]

MutMaxRetries(retries) == IF retries = NULL THEN DEFAULT_RETRIES ELSE retries

\* line 119: 0 is falsy, so it too yields the default
MaxRetries(retries) ==
  IF retries = NULL \/ retries = 0 THEN DEFAULT_RETRIES ELSE retries

\* the call as it stands at its first await (lines 116-141): the token
\* fetch when no token was given, else the first request
guaranteedUnblock(retries, token) ==
  [InitGu EXCEPT !.retries = retries, !.maxRetries = MaxRetries(retries),
                 !.token = token,
                 !.pc = IF token = "" THEN "token" ELSE "request",
                 !.requests = IF token = "" THEN 0 ELSE 1]

GuCall(retries, token) ==
  /\ gu.pc = "idle"
  /\ gu' = guaranteedUnblock(retries, token)
  /\ UNCHANGED <<coreVars, probe, disp, px, kick, conf, fn, step, blk>>

\* getGeneralToken resolves (line 123): the loop starts
GuTokenResolves ==
  /\ gu.pc = "token"
  /\ gu' = [gu EXCEPT !.token = "fetched", !.pc = "request", !.requests = 1]
  /\ UNCHANGED <<coreVars, probe, disp, px, kick, conf, fn, step, blk>>

\* getGeneralToken rejects (line 123): the call rejects with that error
GuTokenRejects(error) ==
  /\ gu.pc = "token"
  /\ gu' = [gu EXCEPT !.pc = "rejected", !.error = error]
  /\ UNCHANGED <<coreVars, probe, disp, px, kick, conf, fn, step, blk>>

\* `await http(httpOpt); return true` (lines 141-142): the response is
\* not looked at
GuRequestResolves(status) ==
  /\ gu.pc = "request"
  /\ gu' = [gu EXCEPT !.pc = "resolved", !.status = status]
  /\ UNCHANGED <<coreVars, probe, disp, px, kick, conf, fn, step, blk>>

\* the catch of lines 143-157 and, after the last attempt, line 163
GuRequestRejects(error) ==
  /\ gu.pc = "request"
  /\ gu' = IF gu.attempt < gu.maxRetries
           THEN [gu EXCEPT !.lastError = error, !.pc = "sleep"]
           ELSE [gu EXCEPT !.lastError = error, !.attempt = @ + 1, !.pc = "rejected",
                           !.error = FailedToUnblock(gu.maxRetries, error)]
  /\ UNCHANGED <<coreVars, probe, disp, px, kick, conf, fn, step, blk>>

\* the one-second wait is over (line 148); after a 403 error the token is
\* fetched again, and kept when that fails (lines 151-157); next attempt
GuRetryDelayElapses(refreshed) ==
  /\ gu.pc = "sleep"
  /\ gu' = [gu EXCEPT !.token = IF gu.lastError.e.statusCode = 403 /\ refreshed
                                THEN "refreshed" ELSE @,
                      !.attempt = @ + 1, !.pc = "request", !.requests = @ + 1]
  /\ UNCHANGED <<coreVars, probe, disp, px, kick, conf, fn, step, blk>>

InitUnblock ==
  /\ CoreIdle
  /\ fn = <<>> /\ step = <<>> /\ blk = <<>>
  /\ probe = <<>>
  /\ disp = <<>>
  /\ px = <<>>
  /\ kick = <<>>
  /\ gu = InitGu
  /\ conf = <<>>

NextUnblock ==
  \/ \E retries \in RetriesArgs, token \in TokenArgs : GuCall(retries, token)
  \/ GuTokenResolves
  \/ \E error \in DispatchErrors : GuTokenRejects(error)
  \/ \E status \in ResponseStatuses : GuRequestResolves(status)
  \/ \E error \in DispatchErrors : GuRequestRejects(error)
  \/ \E refreshed \in BOOLEAN : GuRetryDelayElapses(refreshed)

SpecUnblock == InitUnblock /\ [][NextUnblock]_vars

\* C29: guaranteedUnblock resolves only when the response to one of its
\* requests had status 200, and rejects with the failed-after-N error after
\* retries + 1 failed attempts.
C29_TrueOnlyOnSuccess ==
  /\ gu.pc = "resolved" => gu.status = 200
  /\ (gu.pc = "rejected" /\ gu.requests > 0 /\ gu.retries # NULL)
       => /\ gu.requests = gu.retries + 1
          /\ gu.error.n = gu.retries + 1

----------------------------------------------------------------------------
(***************************************************************************)
(* The kick: exports.func and kickPlayer of kickPlayer.js, with the two    *)
(* pollers.  blockUser and unblockUser run their operation under           *)
(* retryWithTokenRefresh, isUserBlocked under retryWithBackoff; an attempt *)
(* of an operation either succeeds or fails with a drawn error, and the    *)
(* attempts of a step are counted as the loop of retryWithBackoff counts   *)
(* them.  The circuit breaker and the rate limiter that every attempt      *)
(* passes through are the subject of Spec, above: here the breaker's       *)
(* refusal is one of the errors an attempt can fail with.  The cleanup is  *)
(* the guaranteedUnblock call modelled above.                              *)
(***************************************************************************)

POLL_INTERVAL_MS == 500
MAX_POLL_ATTEMPTS == 20
VERIFICATION_POLL_ATTEMPTS == 10

\* errors one attempt of an operation fails with: server (retryable), auth
\* by status (retryable), and the breaker's refusal (unknown, not retryable)
AttemptErrors ==
  {KickError("HTTP 500: Failed", HttpError(500)),
   KickError("HTTP 403: Failed", HttpError(403)),
   KickError("Circuit breaker is OPEN", CircuitOpenError)}

\* what CSRFManager.getToken rejects with: the error of getGeneralToken
\* (http.js line 280), auth by its text
TokenErrors ==
  {KickError("Failed to obtain X-CSRF-TOKEN from all endpoints",
             MkErr("", "Error", 0, 0, 0, FALSE, TRUE, NULL))}

\* line 595: `${operationName} failed: Could not refresh CSRF token:
\* ${tokenError.message}`; the quoted message keeps its 'HTTP nnn'
RefreshFailed(tokenError) ==
  [id |-> "Could not refresh CSRF token", orig |-> tokenError.id, cleanup |-> "",
   e |-> MkErr("", "Error", 0, 0, tokenError.e.msgHttp, tokenError.e.msgTimeout,
               TRUE, NULL)]

\* errors an awaited step rejects with
StepErrors ==
  AttemptErrors \cup {RefreshFailed(x) : x \in AttemptErrors \cup TokenErrors}

\* line 851: `Kick operation failed: User ${userId} is still blocked ...`
StillBlockedError == KickError("still blocked after unblock attempt",
                               MkErr("", "Error", 0, 0, 0, FALSE, FALSE, NULL))

MutCompoundError(error, cleanupError) == cleanupError

\* line 889: `Kick operation failed: ${error.message}. Additionally, cleanup
\* failed: ${cleanupError.message}. User may remain blocked.`
CompoundError(error, cleanupError) ==
  [id |-> "compound", orig |-> error.id, cleanup |-> cleanupError.id,
   e |-> MkErr("", "Error", 0, 0, error.e.msgHttp, error.e.msgTimeout,
               error.e.msgCsrf \/ cleanupError.e.msgCsrf, NULL)]

\* what an is-blocked check comes back with: body === true, or not;
\* `misses` counts the checks of the running poller that did not match;
\* `tries` is the attempt index of the running retryWithBackoff and `fresh`
\* tells that retryWithTokenRefresh is in its run with the refreshed token
CheckResults == {"blocked", "notBlocked"}

InitKick ==
  [pc |-> "idle", blockSuccessful |-> FALSE, attempt |-> 0, blockConfirmed |-> FALSE,
   error |-> NoKickError, lastCheck |-> "none", pollErrored |-> FALSE, misses |-> 0,
   tries |-> 0, fresh |-> FALSE,
   tokens |-> 0, blocks |-> 0, blockChecks |-> 0, unblocks |-> 0,
   unblockChecks |-> 0, cleanups |-> 0]

\* the frame of a kick action that does not call guaranteedUnblock
KickFrame == UNCHANGED <<coreVars, probe, disp, px, gu, conf, fn, step, blk>>

\* an awaited step starts: retryWithBackoff begins with attempt 0
StartStep(k, pc) == [k EXCEPT !.pc = pc, !.tries = 0, !.fresh = FALSE]

\* the catch block of retryWithBackoff and the loop condition (lines 498,
\* 513-561): the failed attempt is followed by another one
RetryAgain(tries, error) ==
  /\ HandleFailure([InitOrchProc EXCEPT !.attempt = tries], error, 0, 0).pc = "sleep"
  /\ tries + 1 < MAX_RETRIES

\* retryWithBackoff rejects with `thrown` (isUserBlocked, line 708)
BackoffThrows(k, thrown) ==
  /\ thrown \in AttemptErrors
  /\ ~RetryAgain(k.tries, thrown.e)

\* retryWithTokenRefresh rejects with `thrown` (lines 569-602): a non-auth
\* error as it is; after an auth error the error of the failed token
\* refresh, or of the failed run with the fresh token, wrapped by line 595
RefreshThrows(k, thrown) ==
  \E a \in AttemptErrors :
    /\ ~RetryAgain(k.tries, a.e)
    /\ IF k.fresh THEN thrown = RefreshFailed(a)
       ELSE IF classifyError(a.e).type = "auth"
       THEN \E t \in TokenErrors : thrown = RefreshFailed(t)
       ELSE thrown = a

MutCleanupNeeded(blockSuccessful, errorType) == blockSuccessful

\* line 874: `if (blockSuccessful && errorType.type !== 'auth')`
CleanupNeeded(blockSuccessful, errorType) ==
  blockSuccessful /\ errorType.type # "auth"

MutKickCatch(k, error) ==
  IF classifyError(error.e).type # "auth"
  THEN [StartStep(k, "cleanup") EXCEPT !.error = error, !.cleanups = @ + 1]
  ELSE [StartStep(k, "rejected") EXCEPT !.error = error]

\* the catch block of kickPlayer (lines 861-897) up to its first await
KickCatch(k, error) ==
  IF CleanupNeeded(k.blockSuccessful, classifyError(error.e))
  THEN [StartStep(k, "cleanup") EXCEPT !.error = error, !.cleanups = @ + 1]
  ELSE [StartStep(k, "rejected") EXCEPT !.error = error]

\* line 881: guaranteedUnblock({ userId, jar, apiUrl, token, retries: 3 })
\* is called when the catch block has decided for the cleanup
CleanupCall(k) ==
  IF k.pc = "cleanup" THEN guaranteedUnblock(3, "given") ELSE gu

\* the frame of a kick action that may enter the catch block
CatchFrame ==
  /\ gu' = CleanupCall(kick')
  /\ UNCHANGED <<coreVars, probe, disp, px, conf, fn, step, blk>>

\* exports.func: CSRFManager.getToken(jar) is awaited
KickCall ==
  /\ kick.pc = "idle"
  /\ kick' = [kick EXCEPT !.pc = "token", !.tokens = @ + 1]
  /\ KickFrame

\* the token arrives: kickPlayer starts and awaits blockUser
TokenResolves ==
  /\ kick.pc = "token"
  /\ kick' = [StartStep(kick, "blocking") EXCEPT !.blocks = @ + 1]
  /\ KickFrame

\* getToken rejects: exports.func rethrows; kickPlayer never ran
TokenRejects(error) ==
  /\ kick.pc = "token"
  /\ kick' = [kick EXCEPT !.pc = "rejected", !.error = error]
  /\ KickFrame

MutAttemptRetries(error) ==
  /\ kick.pc \in {"blocking", "blockVerify", "unblocking", "unblockVerify"}
  /\ RetryAgain(kick.tries, error.e)
  /\ kick' = [kick EXCEPT !.tries = (@ + 1) % (MAX_RETRIES - 1)]
  /\ KickFrame

\* an attempt of the running step fails with a retryable error before the
\* last attempt: after the backoff the operation is invoked again
AttemptRetries(error) ==
  /\ kick.pc \in {"blocking", "blockVerify", "unblocking", "unblockVerify"}
  /\ RetryAgain(kick.tries, error.e)
  /\ kick' = [kick EXCEPT !.tries = @ + 1]
  /\ KickFrame

\* retryWithBackoff has thrown an auth error to retryWithTokenRefresh and
\* CSRFManager.getToken(jar, true) resolves (lines 574-586): the operation
\* is run again, under a new retryWithBackoff, with the fresh token
TokenRefreshed(error) ==
  /\ kick.pc \in {"blocking", "unblocking"}
  /\ ~kick.fresh
  /\ error \in AttemptErrors
  /\ ~RetryAgain(kick.tries, error.e)
  /\ classifyError(error.e).type = "auth"
  /\ kick' = [kick EXCEPT !.fresh = TRUE, !.tries = 0, !.tokens = @ + 1]
  /\ KickFrame

\* blockUser resolves: the first check of pollUntilBlocked goes out
BlockResolves ==
  /\ kick.pc = "blocking"
  /\ kick' = [StartStep(kick, "blockVerify") EXCEPT
                !.blockSuccessful = TRUE, !.attempt = 0, !.misses = 0,
                !.blockChecks = @ + 1]
  /\ KickFrame

MutBlockRejects(error) ==
  /\ kick.pc = "blocking"
  /\ RefreshThrows(kick, error)
  /\ kick' = [StartStep(kick, "unblocking") EXCEPT !.error = error, !.unblocks = @ + 1]
  /\ KickFrame

\* blockUser rejects (line 826): control enters the catch block
BlockRejects(error) ==
  /\ kick.pc = "blocking"
  /\ RefreshThrows(kick, error)
  /\ kick' = KickCatch(kick, error)
  /\ CatchFrame

MutProceedAfterBlockVerification(k, blockConfirmed) ==
  IF blockConfirmed
  THEN [StartStep(k, "unblocking") EXCEPT !.blockConfirmed = TRUE, !.unblocks = @ + 1]
  ELSE KickCatch(k, StillBlockedError)

\* pollUntilBlocked has returned (lines 832-842): confirmed or not,
\* kickPlayer goes on to unblockUser
ProceedAfterBlockVerification(k, blockConfirmed) ==
  [StartStep(k, "unblocking") EXCEPT !.blockConfirmed = blockConfirmed,
                                     !.unblocks = @ + 1]

MutBlockCheckResolves(result) ==
  /\ kick.pc = "blockVerify"
  /\ LET k == [kick EXCEPT !.lastCheck = result,
                            !.misses = IF result = "blocked" THEN @ ELSE @ + 1] IN
       kick' = IF result = "blocked" THEN ProceedAfterBlockVerification(k, TRUE)
               ELSE IF k.attempt < MAX_POLL_ATTEMPTS
               THEN StartStep(k, "blockVerifySleep")
               ELSE ProceedAfterBlockVerification([k EXCEPT !.attempt = @ + 1], FALSE)
  /\ CatchFrame

\* a check of pollUntilBlocked resolves (lines 767-786, 804-808)
BlockCheckResolves(result) ==
  /\ kick.pc = "blockVerify"
  /\ LET k == [kick EXCEPT !.lastCheck = result,
                            !.misses = IF result = "blocked" THEN @ ELSE @ + 1] IN
       kick' = IF result = "blocked" THEN ProceedAfterBlockVerification(k, TRUE)
               ELSE IF k.attempt < MAX_POLL_ATTEMPTS - 1
               THEN StartStep(k, "blockVerifySleep")
               ELSE ProceedAfterBlockVerification([k EXCEPT !.attempt = @ + 1], FALSE)
  /\ CatchFrame

\* a check of pollUntilBlocked rejects (lines 787-801)
BlockCheckRejects(error) ==
  /\ kick.pc = "blockVerify"
  /\ BackoffThrows(kick, error)
  /\ LET k == [kick EXCEPT !.lastCheck = "error", !.pollErrored = TRUE] IN
       kick' = IF k.attempt = MAX_POLL_ATTEMPTS - 1 THEN KickCatch(k, error)
               ELSE StartStep(k, "blockVerifySleep")
  /\ CatchFrame

\* sleep(POLL_INTERVAL_MS) of pollUntilBlocked is over: the next check
BlockPollWakes ==
  /\ kick.pc = "blockVerifySleep"
  /\ kick' = [StartStep(kick, "blockVerify") EXCEPT !.attempt = @ + 1,
                                                    !.blockChecks = @ + 1]
  /\ KickFrame

\* unblockUser resolves: the first check of pollUntilUnblocked goes out
UnblockResolves ==
  /\ kick.pc = "unblocking"
  /\ kick' = [StartStep(kick, "unblockVerify") EXCEPT !.attempt = 0, !.misses = 0,
                                                      !.unblockChecks = @ + 1]
  /\ KickFrame

\* unblockUser rejects (line 840): control enters the catch block
UnblockRejects(error) ==
  /\ kick.pc = "unblocking"
  /\ RefreshThrows(kick, error)
  /\ kick' = KickCatch(kick, error)
  /\ CatchFrame

MutAfterUnblockVerification(k, unblockConfirmed) == StartStep(k, "resolved")

\* pollUntilUnblocked has returned (lines 847-859): kickPlayer returns when
\* the unblock is confirmed and throws the still-blocked error when not
AfterUnblockVerification(k, unblockConfirmed) ==
  IF unblockConfirmed THEN StartStep(k, "resolved")
  ELSE KickCatch(k, StillBlockedError)

\* a check of pollUntilUnblocked resolves (lines 717-736, 754-758) and,
\* when the poller returns, kickPlayer continues (lines 849-859)
UnblockCheckResolves(result) ==
  /\ kick.pc = "unblockVerify"
  /\ LET k == [kick EXCEPT !.lastCheck = result,
                            !.misses = IF result = "notBlocked" THEN @ ELSE @ + 1] IN
       kick' = IF result = "notBlocked" THEN AfterUnblockVerification(k, TRUE)
               ELSE IF k.attempt < VERIFICATION_POLL_ATTEMPTS - 1
               THEN StartStep(k, "unblockVerifySleep")
               ELSE AfterUnblockVerification([k EXCEPT !.attempt = @ + 1], FALSE)
  /\ CatchFrame

MutUnblockCheckRejects(error) ==
  /\ kick.pc = "unblockVerify"
  /\ BackoffThrows(kick, error)
  /\ LET k == [kick EXCEPT !.lastCheck = "error", !.pollErrored = TRUE] IN
       kick' = IF k.attempt = VERIFICATION_POLL_ATTEMPTS - 1
               THEN AfterUnblockVerification([k EXCEPT !.attempt = @ + 1], FALSE)
               ELSE StartStep(k, "unblockVerifySleep")
  /\ CatchFrame

\* a check of pollUntilUnblocked rejects (lines 737-751)
UnblockCheckRejects(error) ==
  /\ kick.pc = "unblockVerify"
  /\ BackoffThrows(kick, error)
  /\ LET k == [kick EXCEPT !.lastCheck = "error", !.pollErrored = TRUE] IN
       kick' = IF k.attempt = VERIFICATION_POLL_ATTEMPTS - 1 THEN KickCatch(k, error)
               ELSE StartStep(k, "unblockVerifySleep")
  /\ CatchFrame

UnblockPollWakes ==
  /\ kick.pc = "unblockVerifySleep"
  /\ kick' = [StartStep(kick, "unblockVerify") EXCEPT !.attempt = @ + 1,
                                                      !.unblockChecks = @ + 1]
  /\ KickFrame

\* guaranteedUnblock resolves: the original error is rethrown (line 896)
CleanupResolves ==
  /\ kick.pc = "cleanup"
  /\ gu.pc = "resolved"
  /\ kick' = [kick EXCEPT !.pc = "rejected"]
  /\ KickFrame

\* guaranteedUnblock rejects: the compound error is thrown (line 889)
CleanupRejects ==
  /\ kick.pc = "cleanup"
  /\ gu.pc = "rejected"
  /\ kick' = [kick EXCEPT !.pc = "rejected", !.error = CompoundError(kick.error, gu.error)]
  /\ KickFrame

InitKickSpec ==
  /\ CoreIdle
  /\ fn = <<>> /\ step = <<>> /\ blk = <<>>
  /\ probe = <<>>
  /\ disp = <<>>
  /\ px = <<>>
  /\ kick = InitKick
  /\ gu = InitGu
  /\ conf = <<>>

NextKick ==
  \/ KickCall
  \/ TokenResolves
  \/ \E error \in TokenErrors : TokenRejects(error)
  \/ \E error \in AttemptErrors : AttemptRetries(error)
  \/ \E error \in AttemptErrors : TokenRefreshed(error)
  \/ BlockResolves
  \/ \E error \in StepErrors : BlockRejects(error)
  \/ \E result \in CheckResults : BlockCheckResolves(result)
  \/ \E error \in StepErrors : BlockCheckRejects(error)
  \/ BlockPollWakes
  \/ UnblockResolves
  \/ \E error \in StepErrors : UnblockRejects(error)
  \/ \E result \in CheckResults : UnblockCheckResolves(result)
  \/ \E error \in StepErrors : UnblockCheckRejects(error)
  \/ UnblockPollWakes
  \/ \E status \in ResponseStatuses : GuRequestResolves(status)
  \/ \E error \in DispatchErrors : GuRequestRejects(error)
  \/ \E refreshed \in BOOLEAN : GuRetryDelayElapses(refreshed)
  \/ CleanupResolves
  \/ CleanupRejects

SpecKick == InitKickSpec /\ [][NextKick]_vars

\* every request completes and every timer fires: a kick that can take a
\* step eventually takes one
SpecKickFair == SpecKick /\ WF_vars(NextKick)

\* a check of the named poller has just come back with `result`
CheckCameBack(from, result) ==
  /\ kick.pc = from
  /\ kick'.pc # from
  /\ kick'.lastCheck = result

\* C20: the 20th check of the block verification coming back not-blocked is
\* not an error: kickPlayer issues the unblock request, with no cleanup; an
\* unblock-verification check coming back not-blocked resolves the kick; and
\* a resolved kick has made one block and one unblock request, ended on a
\* not-blocked check, and never invoked guaranteedUnblock.
C20_UnconfirmedBlockProceeds ==
  [][ /\ (CheckCameBack("blockVerify", "notBlocked") /\ kick.attempt = 19)
        => /\ kick'.pc = "unblocking"
           /\ kick'.blockChecks = 20
           /\ ~kick'.blockConfirmed
           /\ kick'.unblocks = 1
           /\ kick'.cleanups = 0
           /\ kick'.error = NoKickError
      /\ CheckCameBack("unblockVerify", "notBlocked") => kick'.pc = "resolved"
      /\ kick'.pc = "resolved"
        => /\ kick'.cleanups = 0
           /\ kick'.blocks = 1
           /\ kick'.unblocks = 1
           /\ kick'.lastCheck = "notBlocked"
           /\ kick'.error = NoKickError
    ]_vars

\* the scenario: 20 unconfirming block checks, none failing, then the
\* unblock confirmed by the third check
C20_Witness ==
  /\ kick.pc = "resolved"
  /\ kick.blockChecks = 20
  /\ ~kick.blockConfirmed
  /\ ~kick.pollErrored
  /\ kick.unblockChecks = 3
  /\ kick.cleanups = 0

\* C21: when the block step fails, the kick rejects with that very error;
\* and as long as the block step has not succeeded, no is-blocked check, no
\* unblock request and no cleanup has been issued.
C21_BlockFailureIsTerminal ==
  [][ /\ \A error \in StepErrors :
           BlockRejects(error)
             => /\ kick'.pc = "rejected"
                /\ kick'.error = error
                /\ ~kick'.blockSuccessful
      /\ ~kick'.blockSuccessful
           => /\ kick'.blockChecks = 0
              /\ kick'.unblocks = 0
              /\ kick'.unblockChecks = 0
              /\ kick'.cleanups = 0
    ]_vars

\* the block step has failed with a server error and the kick has rejected
C21_Witness ==
  /\ kick.pc = "rejected"
  /\ kick.blocks = 1
  /\ ~kick.blockSuccessful
  /\ kick.error = KickError("HTTP 500: Failed", HttpError(500))

\* the unblock step has just failed with an error not classified auth
UnblockFailedNonAuth ==
  /\ kick.pc = "unblocking"
  /\ kick'.pc \notin {"unblocking", "unblockVerify"}
  /\ classifyError(kick'.error.e).type # "auth"

C23_ResolvesOnlyWhenUnblocked ==
  [][ /\ (kick.pc # "resolved" /\ kick'.pc = "resolved")
           => /\ kick.pc = "unblockVerify"
              /\ kick.unblocks = 1
              /\ kick'.lastCheck = "notBlocked"
      /\ (kick.pc = "unblockVerify" /\ kick'.misses = VERIFICATION_POLL_ATTEMPTS)
           => /\ kick'.unblockChecks = VERIFICATION_POLL_ATTEMPTS
              /\ kick'.pc \in {"cleanup", "rejected"}
              /\ kick'.error = StillBlockedError
      /\ kick.pc \in {"cleanup", "rejected"} => kick'.pc \in {"cleanup", "rejected"}
    ]_vars

\* ten checks, all still blocked: the kick has rejected with the
\* still-blocked error after a successful cleanup
C23_Witness ==
  /\ kick.pc = "rejected"
  /\ kick.unblockChecks = VERIFICATION_POLL_ATTEMPTS
  /\ kick.misses = VERIFICATION_POLL_ATTEMPTS
  /\ kick.lastCheck = "blocked"
  /\ kick.error = StillBlockedError

\* a step of the kick has just failed: control has entered the catch block
StepFailed ==
  /\ kick.pc \in {"token", "blocking", "blockVerify", "unblocking", "unblockVerify"}
  /\ kick'.pc \in {"cleanup", "rejected"}

\* C24: a step failing with an auth-classified error rejects the kick with
\* that error at once, without cleanup; and guaranteedUnblock is invoked only
\* on a failure that follows a successful block and is not classified auth.
C24_AuthSkipsCleanup ==
  [][ /\ (StepFailed /\ classifyError(kick'.error.e).type = "auth")
           => /\ kick'.pc = "rejected"
              /\ kick'.cleanups = 0
              /\ kick'.error \in StepErrors \cup TokenErrors
      /\ \A error \in StepErrors :
           (UnblockRejects(error) /\ classifyError(error.e).type = "auth")
             => kick'.error = error /\ kick'.pc = "rejected"
      /\ kick'.cleanups > kick.cleanups
           => /\ StepFailed
              /\ kick.blockSuccessful
              /\ classifyError(kick'.error.e).type # "auth"
      /\ (kick.pc = "rejected" /\ classifyError(kick.error.e).type = "auth"
             /\ kick.error.id # "compound")
           => kick.cleanups = 0
    ]_vars

\* the unblock step failed with HTTP 403 after a successful block: the
\* kick has rejected with that error and no cleanup
C24_Witness ==
  /\ kick.pc = "rejected"
  /\ kick.blockSuccessful
  /\ kick.unblocks = 1
  /\ kick.unblockChecks = 0
  /\ kick.error = RefreshFailed(KickError("HTTP 403: Failed", HttpError(403)))
  /\ kick.cleanups = 0

\* the position of a control point in START, BLOCKING, BLOCK_VERIFYING,
\* UNBLOCKING, UNBLOCK_VERIFYING, DONE, with the failure path after them
StepRank(pc) ==
  CASE pc = "idle" -> 0
    [] pc = "token" -> 1
    [] pc = "blocking" -> 2
    [] pc \in {"blockVerify", "blockVerifySleep"} -> 3
    [] pc = "unblocking" -> 4
    [] pc \in {"unblockVerify", "unblockVerifySleep"} -> 5
    [] pc = "resolved" -> 6
    [] pc = "cleanup" -> 7
    [] pc = "rejected" -> 8

\* C25: the kick never goes back to an earlier step; the one block request
\* goes out first; an is-blocked check of the block verification goes out
\* only after the block succeeded and before any unblock request; the one
\* unblock request goes out only after the block succeeded and its
\* verification returned; a check of the unblock verification goes out only
\* after the unblock request; the kick is done only after such a check; and
\* the cleanup is entered only when the block had succeeded and a later step
\* has just failed.
C25_StepsInOrder ==
  [][ /\ StepRank(kick'.pc) >= StepRank(kick.pc)
      /\ kick'.blocks > kick.blocks
           => /\ kick.blocks = 0
              /\ kick.blockChecks = 0 /\ kick.unblocks = 0
              /\ kick.unblockChecks = 0 /\ kick.cleanups = 0
      /\ kick'.blockChecks > kick.blockChecks
           => /\ kick'.blockSuccessful
              /\ kick.blocks = 1
              /\ kick.unblocks = 0 /\ kick.unblockChecks = 0 /\ kick.cleanups = 0
      /\ kick'.unblocks > kick.unblocks
           => /\ kick.blockSuccessful
              /\ kick.blockChecks >= 1
              /\ kick.pc = "blockVerify"
              /\ kick.unblocks = 0 /\ kick.unblockChecks = 0 /\ kick.cleanups = 0
      /\ kick'.unblockChecks > kick.unblockChecks
           => /\ kick.unblocks = 1
              /\ kick.pc \in {"unblocking", "unblockVerifySleep"}
              /\ kick.cleanups = 0
      /\ kick'.pc = "resolved" => kick'.unblockChecks >= 1 /\ kick'.blockSuccessful
      /\ (kick.pc # "cleanup" /\ kick'.pc = "cleanup")
           => /\ kick.blockSuccessful
              /\ kick.pc \in {"blockVerify", "unblocking", "unblockVerify"}
              /\ kick.error = NoKickError
              /\ kick'.error # NoKickError
    ]_vars

\* a run through every step: the block confirmed at the second check, the
\* unblock never confirmed, the cleanup entered
C25_Witness ==
  /\ kick.pc = "cleanup"
  /\ kick.blockConfirmed
  /\ kick.blockChecks = 2
  /\ kick.unblocks = 1
  /\ kick.unblockChecks = VERIFICATION_POLL_ATTEMPTS
  /\ kick.cleanups = 1

\* pollUntilBlocked has just returned the value b
BlockPollerReturned(b) ==
  /\ kick.pc = "blockVerify"
  /\ kick'.pc = "unblocking"
  /\ kick'.blockConfirmed = b

\* pollUntilUnblocked has just returned true (the kick is done) or false
\* (the kick has thrown the still-blocked error)
UnblockPollerReturned(b) ==
  /\ kick.pc = "unblockVerify"
  /\ IF b THEN kick'.pc = "resolved"
          ELSE kick'.pc \in {"cleanup", "rejected"} /\ kick'.error = StillBlockedError

\* C27: a poller returns true exactly at a check that matches its predicate,
\* and no check follows; it returns false, raising nothing, exactly when its
\* last permitted check comes back non-matching, none before having matched;
\* a poller never makes more checks than its budget (20 and 10).
C27_PollersBounded ==
  [][ /\ CheckCameBack("blockVerify", "blocked") <=> BlockPollerReturned(TRUE)
      /\ CheckCameBack("unblockVerify", "notBlocked") <=> UnblockPollerReturned(TRUE)
      /\ kick.pc \in {"unblocking", "unblockVerify", "unblockVerifySleep"}
           => kick'.blockChecks = kick.blockChecks
      /\ kick.pc = "resolved" => kick'.unblockChecks = kick.unblockChecks
      /\ BlockPollerReturned(FALSE)
           <=> /\ CheckCameBack("blockVerify", "notBlocked")
               /\ kick'.blockChecks = MAX_POLL_ATTEMPTS
      /\ BlockPollerReturned(FALSE) => kick'.error = NoKickError
      /\ UnblockPollerReturned(FALSE)
           <=> /\ CheckCameBack("unblockVerify", "blocked")
               /\ kick'.unblockChecks = VERIFICATION_POLL_ATTEMPTS
      /\ (kick.pc = "blockVerify" /\ kick'.misses = MAX_POLL_ATTEMPTS)
           => BlockPollerReturned(FALSE)
      /\ (kick.pc = "unblockVerify" /\ kick'.misses = VERIFICATION_POLL_ATTEMPTS)
           => UnblockPollerReturned(FALSE)
      /\ kick'.blockChecks <= MAX_POLL_ATTEMPTS
      /\ kick'.unblockChecks <= VERIFICATION_POLL_ATTEMPTS
      /\ kick'.misses <= kick'.attempt + 1
    ]_vars

\* the block confirmed at its twentieth and last check; the unblock
\* verification asleep after three checks that did not match
C27_Witness ==
  /\ kick.pc = "unblockVerifySleep"
  /\ kick.blockConfirmed
  /\ kick.blockChecks = MAX_POLL_ATTEMPTS
  /\ kick.misses = 3
  /\ ~kick.pollErrored

\* a check of the named poller has just failed
CheckFailed(from) ==
  /\ kick.pc = from
  /\ kick'.lastCheck = "error"
  /\ kick'.pc # from

\* C28: a check failing before the poller's last attempt makes the poller
\* sleep and check again, the attempt spent; a check failing on the last
\* attempt fails the kick with that check's error, never the still-blocked
\* error of a false result and never a continuation.
C28_PollerErrors ==
  [][ /\ (CheckFailed("blockVerify") /\ kick.attempt < MAX_POLL_ATTEMPTS - 1)
           => /\ kick'.pc = "blockVerifySleep"
              /\ kick'.error = NoKickError
      /\ (CheckFailed("unblockVerify") /\ kick.attempt < VERIFICATION_POLL_ATTEMPTS - 1)
           => /\ kick'.pc = "unblockVerifySleep"
              /\ kick'.error = NoKickError
      /\ (kick.pc = "blockVerifySleep" /\ kick'.pc # kick.pc)
           => /\ kick'.pc = "blockVerify"
              /\ kick'.attempt = kick.attempt + 1
              /\ kick'.blockChecks = kick.blockChecks + 1
      /\ (kick.pc = "unblockVerifySleep" /\ kick'.pc # kick.pc)
           => /\ kick'.pc = "unblockVerify"
              /\ kick'.attempt = kick.attempt + 1
              /\ kick'.unblockChecks = kick.unblockChecks + 1
      /\ (CheckFailed("blockVerify") /\ kick.attempt = MAX_POLL_ATTEMPTS - 1)
           => /\ kick'.pc \in {"cleanup", "rejected"}
              /\ kick'.error \in StepErrors
              /\ kick'.unblocks = 0
      /\ (CheckFailed("unblockVerify") /\ kick.attempt = VERIFICATION_POLL_ATTEMPTS - 1)
           => /\ kick'.pc \in {"cleanup", "rejected"}
              /\ kick'.error \in StepErrors
    ]_vars

\* the unblock verification failed on its tenth check after an earlier
\* check had failed too: that error has reached the catch block
C28_Witness ==
  /\ kick.pc = "cleanup"
  /\ kick.unblockChecks = VERIFICATION_POLL_ATTEMPTS
  /\ kick.lastCheck = "error"
  /\ kick.misses = VERIFICATION_POLL_ATTEMPTS - 2
  /\ kick.error = KickError("HTTP 500: Failed", HttpError(500))

\* the kick has settled: the promise of exports.func is resolved or rejected
KickSettled == kick.pc \in {"resolved", "rejected"}

\* C26: a kick that has been called eventually settles; once settled it
\* takes no further step, so it settles once, a rejected kick holding one
\* error and a resolved kick none; and every loop is bounded: at most 3
\* attempts per retryWithBackoff, one token refresh per block and unblock
\* step, 20 and 10 checks, one cleanup of at most 4 requests.
C26_SettlesOnce ==
  /\ (kick.pc = "token") ~> KickSettled
  /\ [][KickSettled => kick' = kick /\ gu' = gu]_vars
  /\ [](kick.pc = "rejected" <=> (KickSettled /\ kick.error # NoKickError))
  /\ [](/\ kick.tries < MAX_RETRIES
        /\ kick.tokens <= 3
        /\ kick.blocks <= 1
        /\ kick.blockChecks <= MAX_POLL_ATTEMPTS
        /\ kick.unblocks <= 1
        /\ kick.unblockChecks <= VERIFICATION_POLL_ATTEMPTS
        /\ kick.cleanups <= 1
        /\ gu.requests <= DEFAULT_RETRIES + 1)

\* the longest run has settled: both token refreshes, every check of both
\* pollers, and a cleanup that failed on its fourth request
C26_Witness ==
  /\ kick.pc = "rejected"
  /\ kick.tokens = 3
  /\ kick.blockChecks = MAX_POLL_ATTEMPTS
  /\ kick.unblockChecks = VERIFICATION_POLL_ATTEMPTS
  /\ kick.error.id = "compound"
  /\ gu.requests = DEFAULT_RETRIES + 1

(***************************************************************************)
(* configure and getConfiguration (lib/util/http.js, lines 325-431) over   *)
(* lib/util/proxyConfig.js (validateConfig, updateConfig, getProxyConfig). *)
(* settings.json is parsed once by require; its `proxy` and `rblxprxy`     *)
(* sections are either absent or objects, and every shape is an initial    *)
(* state.  An optional value is <<>> (undefined) or <<v>>; a string that   *)
(* the code only reads through `x || ''` is "" when it is undefined.       *)
(***************************************************************************)
Undefined == <<>>

Def(v) == <<v>>

IsDef(o) == o # <<>>

\* `o || d` for an optional array or object (truthy whenever defined)
OrElse(o, d) == IF IsDef(o) THEN o[1] ELSE d

\* the default domain list (the same literal in configure and getProxyConfig)
defaultDomains ==
  <<"accountinformation.roblox.com", "accountsettings.roblox.com",
    "api.roblox.com", "apis.roblox.com", "auth.roblox.com",
    "avatar.roblox.com", "badges.roblox.com", "catalog.roblox.com",
    "chat.roblox.com", "data.roblox.com", "develop.roblox.com",
    "economy.roblox.com", "friends.roblox.com", "games.roblox.com",
    "groups.roblox.com", "inventory.roblox.com",
    "itemconfiguration.roblox.com", "presence.roblox.com",
    "privatemessages.roblox.com", "realtime-signalr.roblox.com",
    "thumbnails.roblox.com", "trades.roblox.com", "users.roblox.com",
    "www.roblox.com">>

\* configure calls in one behaviour
MaxConfigures == 1

\* the values a caller passes in options.proxy
EnabledArgs == {Undefined, Def(TRUE)}

KeyArgs == {"", " ", "k1"}

CountryArgs == {"us", "usa"}

UrlArgs == {"", "https://proxy.example/api"}

DomainArgs == {Undefined, Def(<<>>), Def(<<"users.roblox.com">>)}

FallbackArgs == {Undefined, Def(FALSE)}

ProxyArgs ==
  [enabled : EnabledArgs, key : KeyArgs, country : CountryArgs,
   url : UrlArgs, domains : DomainArgs, fallback : FallbackArgs]

\* the shapes of a proxy section of settings.json: absent, {}, a disabled
\* section, an enabled section
SettingsSections ==
  {Undefined,
   Def([enabled |-> Undefined, key |-> "", country |-> "", url |-> "",
        domains |-> Undefined, fallback |-> Undefined]),
   Def([enabled |-> Def(FALSE), key |-> "", country |-> "", url |-> "",
        domains |-> Def(<<>>), fallback |-> Def(TRUE)]),
   Def([enabled |-> Def(TRUE), key |-> "filekey", country |-> "de",
        url |-> "https://file.example", domains |-> Def(<<"api.roblox.com">>),
        fallback |-> Def(FALSE)])}

\* process.env: PROXY_ENABLED and PROXY_KEY set or not; the RBLXPRXY_* twins,
\* PROXY_COUNTRY, PROXY_URL and PROXY_FALLBACK are not set
Environments ==
  [PROXY_ENABLED : {"", "true"}, PROXY_KEY : {"", "envkey"},
   PROXY_COUNTRY : {""}, PROXY_URL : {""}, PROXY_FALLBACK : {""}]

\* String.prototype.trim on the strings of KeyArgs and UrlArgs
Trim(s) == IF s = " " THEN "" ELSE s

\* /^[a-z]{2}$/i on the strings of CountryArgs
IsCountryCode(c) == c \in {"us", "de"}

\* validateConfig (proxyConfig.js, lines 183-208) of a config whose fields
\* are all defined
validateConfig(config) ==
  LET errors ==
        IF config.enabled
        THEN (IF Trim(config.key) = ""
              THEN <<"Proxy key is required when proxy is enabled">> ELSE <<>>)
             \o (IF Trim(config.url) = ""
                 THEN <<"Proxy URL is required when proxy is enabled">> ELSE <<>>)
             \o (IF config.country # "" /\ ~IsCountryCode(config.country)
                 THEN <<"Country code must be a 2-letter ISO country code">>
                 ELSE <<>>)
             \o (IF Len(config.domains) = 0
                 THEN <<"At least one domain must be configured for proxying">>
                 ELSE <<>>)
        ELSE <<>>
  IN [isValid |-> errors = <<>>, errors |-> errors]

\* configure maps options.proxy to proxyOptions.proxy (http.js, lines 337-371)
ProxyOptions(P) ==
  [enabled |-> IF IsDef(P.enabled) THEN P.enabled[1] ELSE FALSE,
   key |-> P.key, country |-> P.country, url |-> P.url,
   domains |-> OrElse(P.domains, defaultDomains),
   fallback |-> IF IsDef(P.fallback) THEN P.fallback[1] ELSE TRUE]

\* Object.assign(section, newConfig): all six fields of the section are
\* overwritten (proxyConfig.js, line 223)
Assigned(newConfig) ==
  [enabled |-> Def(newConfig.enabled), key |-> newConfig.key,
   country |-> newConfig.country, url |-> newConfig.url,
   domains |-> Def(newConfig.domains), fallback |-> Def(newConfig.fallback)]

\* updateConfig (proxyConfig.js, lines 215-226), called with a valid config
\* and an existing rblxprxy section: it writes settings.rblxprxy
updateConfig(c, newConfig) ==
  [c EXCEPT !.rblxprxy = Def(Assigned(newConfig))]

NoConfigureResult == [success |-> FALSE, warnings |-> <<>>, errors |-> <<>>]

NoConfiguration == [thrown |-> "", proxy |-> Undefined]

\* what Object.assign(undefined, ...) and undefined.domains throw
AssignTypeError == "Cannot convert undefined or null to object"

ReadTypeError == "Cannot read properties of undefined (reading 'domains')"

\* getProxyConfig (proxyConfig.js, lines 121-176): the thrown TypeError of
\* line 128, or the configuration of the environment, or the one of the
\* first section found among settings.proxy, settings.rblxprxy, {}
getProxyConfig(c) ==
  IF ~IsDef(c.proxy)
  THEN [thrown |-> ReadTypeError, config |-> Undefined]
  ELSE
    LET envConfig ==
          [enabled |-> c.env.PROXY_ENABLED = "true",
           key |-> c.env.PROXY_KEY,
           country |-> c.env.PROXY_COUNTRY,
           url |-> c.env.PROXY_URL,
           domains |-> IF IsDef(c.proxy[1].domains) THEN c.proxy[1].domains[1]
                       ELSE IF IsDef(c.rblxprxy) /\ IsDef(c.rblxprxy[1].domains)
                            THEN c.rblxprxy[1].domains[1]
                            ELSE <<>>,
           fallback |-> c.env.PROXY_FALLBACK # "false"]
        proxySettings ==
          IF IsDef(c.proxy) THEN c.proxy[1]
          ELSE IF IsDef(c.rblxprxy) THEN c.rblxprxy[1]
          ELSE [enabled |-> Undefined, key |-> "", country |-> "", url |-> "",
                domains |-> Undefined, fallback |-> Undefined]
    IN [thrown |-> "",
        config |-> Def(
          IF envConfig.enabled /\ envConfig.key # ""
          THEN envConfig
          ELSE [enabled |-> IsDef(proxySettings.enabled) /\ proxySettings.enabled[1],
                key |-> proxySettings.key,
                country |-> proxySettings.country,
                url |-> proxySettings.url,
                domains |-> OrElse(proxySettings.domains, defaultDomains),
                fallback |-> ~(IsDef(proxySettings.fallback)
                               /\ ~proxySettings.fallback[1])])]

\* the object getConfiguration builds from a proxy configuration (http.js,
\* lines 418-431): the key is masked
Masked(proxyConf) ==
  [enabled |-> proxyConf.enabled,
   key |-> IF proxyConf.key # "" THEN "***" ELSE "",
   url |-> proxyConf.url, country |-> proxyConf.country,
   domains |-> proxyConf.domains, fallback |-> proxyConf.fallback]

InitConf ==
  conf \in [pc : {"loaded"}, calls : {0}, proxy : SettingsSections,
            rblxprxy : SettingsSections, env : Environments,
            options : {Undefined}, result : {NoConfigureResult}, report : {NoConfiguration}]

ConfFrame == UNCHANGED <<coreVars, probe, disp, px, kick, gu, fn, step, blk>>

\* configure({proxy: P}) (http.js, lines 325-407): invalid options return
\* the validation errors; a throw of updateConfig is caught and returned
Configure(P) ==
  /\ conf.calls < MaxConfigures
  /\ LET proxyOptions == ProxyOptions(P)
         validation == validateConfig(proxyOptions)
         called == [conf EXCEPT !.pc = "configured", !.options = Def(P),
                                !.calls = conf.calls + 1,
                                !.report = NoConfiguration]
     IN conf' =
          IF ~validation.isValid
          THEN [called EXCEPT !.result =
                  [success |-> FALSE, warnings |-> <<>>,
                   errors |-> validation.errors]]
          ELSE IF ~IsDef(conf.rblxprxy)
          THEN [called EXCEPT !.result =
                  [success |-> FALSE, warnings |-> <<>>,
                   errors |-> <<"Proxy configuration error: " \o AssignTypeError>>]]
          ELSE [updateConfig(called, proxyOptions) EXCEPT !.result =
                  [success |-> TRUE,
                   warnings |-> <<"Proxy configuration updated successfully">>,
                   errors |-> <<>>]]
  /\ ConfFrame

\* getConfiguration() (http.js, lines 418-431)
GetConfiguration ==
  /\ conf.pc \in {"loaded", "configured"}
  /\ LET proxyConf == getProxyConfig(conf)
     IN conf' = [conf EXCEPT
          !.pc = IF conf.pc = "configured" THEN "read" ELSE "loaded",
          !.report = IF proxyConf.thrown # ""
                     THEN [thrown |-> proxyConf.thrown, proxy |-> Undefined]
                     ELSE [thrown |-> "",
                           proxy |-> Def(Masked(proxyConf.config[1]))]]
  /\ ConfFrame

InitConfig ==
  /\ CoreIdle
  /\ fn = <<>> /\ step = <<>> /\ blk = <<>>
  /\ probe = <<>>
  /\ disp = <<>>
  /\ px = <<>>
  /\ kick = <<>>
  /\ gu = <<>>
  /\ InitConf

NextConfig ==
  \/ \E P \in ProxyArgs : Configure(P)
  \/ GetConfiguration

SpecConfig == InitConfig /\ [][NextConfig]_vars

\* the options of the claim: enabled, and accepted by validateConfig
PassesValidation(P) ==
  /\ ProxyOptions(P).enabled
  /\ validateConfig(ProxyOptions(P)).isValid

\* C30: after configure({proxy: P}) with an enabled P that passes
\* validation, configure returned success = true, and a following
\* getConfiguration reports P's enabled, url, country, domains and fallback
\* with the key masked as '***'.
C30_ConfigureRoundTrip ==
  (IsDef(conf.options) /\ PassesValidation(conf.options[1])) =>
    /\ conf.pc \in {"configured", "read"} => conf.result.success
    /\ conf.pc = "read" =>
         conf.report = [thrown |-> "",
                        proxy |-> Def(Masked(ProxyOptions(conf.options[1])))]

(***************************************************************************)
(* The pure helpers of kickPlayer.js, evaluated on drawn arguments:        *)
(* classifyError(error) (lines 408-443) and calculateBackoffWithJitter     *)
(* (lines 368-373), the latter for an attempt index and for the next one.  *)
(***************************************************************************)
\* the largest attempt index the backoff is evaluated for
MaxAttemptIndex == 6

\* the error objects classifyError is evaluated on
ErrorCodes == {"", "ECONNRESET", "ETIMEDOUT", "ENOTFOUND", "ECONNREFUSED",
               "TIMEOUT", "EPIPE"}

ErrorNames == {"Error", "AbortError"}

StatusCodes == {0, 302, 400, 401, 403, 404, 429, 500, 503}

ClassifiedErrors ==
  {MkErr(code, name, statusCode, status, msgHttp, msgTimeout, msgCsrf, NULL) :
     code \in ErrorCodes, name \in ErrorNames, statusCode \in StatusCodes,
     status \in {0, 429}, msgHttp \in {0, 403, 500},
     msgTimeout \in BOOLEAN, msgCsrf \in BOOLEAN}

\* Math.random() * JITTER_MS lies in [0, JITTER_MS)
JitterDraws == {0, 1, 250, JITTER_MS - 1}

NoErrorInfo ==
  [type |-> "", retryable |-> FALSE, rateLimited |-> FALSE, retryAfter |-> NULL]

InitFn ==
  \/ \E error \in ClassifiedErrors :
       fn = [pc |-> "args", name |-> "classifyError", error |-> error,
             attempt |-> 0, jitter |-> 0, jitterNext |-> 0,
             info |-> NoErrorInfo, delay |-> 0, delayNext |-> 0]
  \/ \E attempt \in 0 .. MaxAttemptIndex, j1 \in JitterDraws, j2 \in JitterDraws :
       fn = [pc |-> "args", name |-> "calculateBackoffWithJitter",
             error |-> NoError, attempt |-> attempt, jitter |-> j1,
             jitterNext |-> j2, info |-> NoErrorInfo, delay |-> 0,
             delayNext |-> 0]

FnFrame == UNCHANGED <<coreVars, probe, disp, px, kick, gu, conf, step, blk>>

\* one evaluation of classifyError(error)
ClassifyErrorCall ==
  /\ fn.pc = "args" /\ fn.name = "classifyError"
  /\ fn' = [fn EXCEPT !.pc = "returned", !.info = classifyError(fn.error)]
  /\ FnFrame

\* calculateBackoffWithJitter(attempt) and calculateBackoffWithJitter(attempt + 1)
BackoffCall ==
  /\ fn.pc = "args" /\ fn.name = "calculateBackoffWithJitter"
  /\ fn' = [fn EXCEPT
       !.pc = "returned",
       !.delay = calculateBackoffWithJitter(fn.attempt, fn.jitter),
       !.delayNext = calculateBackoffWithJitter(fn.attempt + 1, fn.jitterNext)]
  /\ FnFrame

InitHelpers ==
  /\ CoreIdle
  /\ probe = <<>> /\ disp = <<>> /\ px = <<>> /\ kick = <<>>
  /\ gu = <<>> /\ conf = <<>> /\ step = <<>> /\ blk = <<>>
  /\ InitFn

NextHelpers ==
  \/ ClassifyErrorCall
  \/ BackoffCall

SpecHelpers == InitHelpers /\ [][NextHelpers]_vars

Classified == fn.pc = "returned" /\ fn.name = "classifyError"

ErrorKinds ==
  {"network", "timeout", "rate_limit", "auth", "server", "client", "unknown"}

\* the tests classifyError makes before it looks at the status
IsNetworkError(error) ==
  error.code \in {"ECONNRESET", "ETIMEDOUT", "ENOTFOUND", "ECONNREFUSED"}

IsTimeoutError(error) ==
  error.name = "AbortError" \/ error.code = "TIMEOUT" \/ error.msgTimeout

\* the kind the status of a failure stands for ("" for no status or a
\* status below 400)
KindOfStatus(code) ==
  IF code = 429 THEN "rate_limit"
  ELSE IF code \in {401, 403} THEN "auth"
  ELSE IF code >= 500 THEN "server"
  ELSE IF code >= 400 THEN "client"
  ELSE ""

\* C31 (amended): classifyError is total and returns exactly one of the seven
\* kinds; a failure with a network code is network, otherwise one with the
\* name AbortError, the code TIMEOUT or 'timeout' in its message is timeout,
\* and only otherwise the status decides: 429 rate_limit, 401/403 auth,
\* >= 500 server, any other status >= 400 client; retryable is true exactly for
\* network, timeout, rate_limit, auth and server.
C31_ClassifiedByPrecedence ==
  Classified =>
    LET error == fn.error
        kind == KindOfStatus(extractStatusCode(error))
    IN /\ fn.info.type \in ErrorKinds
       /\ IsNetworkError(error) => fn.info.type = "network"
       /\ (~IsNetworkError(error) /\ IsTimeoutError(error)) => fn.info.type = "timeout"
       /\ (~IsNetworkError(error) /\ ~IsTimeoutError(error) /\ kind # "")
            => fn.info.type = kind
       /\ fn.info.retryable <=>
            fn.info.type \in {"network", "timeout", "rate_limit", "auth", "server"}
       /\ fn.info.rateLimited <=> fn.info.type = "rate_limit"

\* a 404 without network or timeout marks has been classified client
C31_Witness ==
  /\ Classified
  /\ fn.error.statusCode = 404 /\ fn.error.code = "" /\ fn.error.name = "Error"
  /\ ~fn.error.msgTimeout
  /\ fn.info.type = "client" /\ ~fn.info.retryable

\* C31 as stated: whatever else the failure carries, status 429 gives
\* rate_limit, 401/403 give auth, >= 500 gives server and any other 4xx
\* gives client.
C31_ClassifiedByStatus ==
  (Classified /\ KindOfStatus(extractStatusCode(fn.error)) # "")
    => fn.info.type = KindOfStatus(extractStatusCode(fn.error))

BackedOff == fn.pc = "returned" /\ fn.name = "calculateBackoffWithJitter"

\* the first attempt index whose exponential delay reaches MAX_BACKOFF_MS
CapIndex == CHOOSE a \in 0 .. MaxAttemptIndex + 1 :
  /\ INITIAL_BACKOFF_MS * Pow2(a) >= MAX_BACKOFF_MS
  /\ \A b \in 0 .. a - 1 : INITIAL_BACKOFF_MS * Pow2(b) < MAX_BACKOFF_MS

\* C32 (amended): the delay is min(1000 * 2^attempt, 30000) plus the jitter;
\* below the attempt index that reaches the cap the delay of attempt + 1 is
\* not smaller than the delay of attempt whatever the two jitter draws are;
\* the deterministic part never exceeds 30000 ms; the jitter lies in
\* [0, 500) ms.
C32_BackoffMonotoneCapped ==
  BackedOff =>
    /\ fn.delay - fn.jitter =
         (IF fn.attempt < CapIndex THEN INITIAL_BACKOFF_MS * Pow2(fn.attempt)
          ELSE MAX_BACKOFF_MS)
    /\ fn.delay - fn.jitter <= MAX_BACKOFF_MS
    /\ fn.delayNext - fn.jitterNext <= MAX_BACKOFF_MS
    /\ fn.attempt < CapIndex => fn.delayNext >= fn.delay
    /\ 0 <= fn.jitter /\ fn.jitter < JITTER_MS

\* the last doubling step before the cap, with the largest jitter on the
\* earlier delay and none on the later one
C32_Witness ==
  /\ BackedOff
  /\ fn.attempt = CapIndex - 1
  /\ fn.jitter = JITTER_MS - 1 /\ fn.jitterNext = 0
  /\ fn.delay = 16499 /\ fn.delayNext = MAX_BACKOFF_MS

\* C32 as stated: the jitter component is strictly positive on every call
\* (0 < jitter <= 500 ms).
C32_JitterStrictlyPositive ==
  BackedOff =>
    /\ 0 < fn.jitter /\ fn.jitter <= JITTER_MS
    /\ fn.delay - fn.jitter <= MAX_BACKOFF_MS
    /\ fn.attempt < CapIndex => fn.delayNext >= fn.delay

\* the operation of chain p settled with a failure in this step
AttemptFailed(p) ==
  /\ orch[p].pc = "inflight"
  /\ orch'[p].pc = "sleep" \/ (orch'[p].pc = "idle" /\ orch'[p].outcome = "fail")

\* C33: one retryWithBackoff call invokes the operation at most MAX_RETRIES
\* times; a failure classified client or unknown ends the call at once with
\* that error and no further invocation; a retryable failure is followed by a
\* sleep, and the operation is invoked again only while attempts remain; the
\* error thrown in the end is the one of the last attempt.
C33_AttemptsBounded ==
  /\ [](\A p \in Procs : orch[p].invoked <= MAX_RETRIES)
  /\ [][\A p \in Procs :
         /\ (AttemptFailed(p) /\ ~classifyError(orch'[p].lastError).retryable)
              => /\ orch'[p].pc = "idle" /\ orch'[p].outcome = "fail"
                 /\ orch'[p].invoked = orch[p].invoked
         /\ (AttemptFailed(p) /\ classifyError(orch'[p].lastError).retryable
               /\ orch[p].attempt < MAX_RETRIES - 1)
              => orch'[p].pc = "sleep"
         /\ (AttemptFailed(p) /\ orch'[p].pc = "idle")
              => \/ ~classifyError(orch'[p].lastError).retryable
                 \/ orch[p].attempt = MAX_RETRIES - 1
         /\ orch'[p].invoked > orch[p].invoked
              => /\ orch'[p].invoked = orch[p].invoked + 1
                 /\ orch'[p].attempt < MAX_RETRIES
                 /\ orch'[p].attempt = orch[p].invoked
                 /\ orch[p].pc = "sleep"
                      => classifyError(orch[p].lastError).retryable
         /\ (orch[p].pc = "sleep" /\ orch'[p].pc = "idle")
              => /\ orch'[p].outcome = "fail"
                 /\ \/ /\ orch'[p].lastError = orch[p].lastError
                       /\ orch[p].attempt = MAX_RETRIES - 1
                    \/ /\ orch'[p].lastError = CircuitOpenError
                       /\ orch'[p].attempt < MAX_RETRIES
                       /\ CircuitRejects(updateFailures(cb, now), now)
       ]_vars

\* a call has thrown the server error of its third invocation
C33_Witness ==
  \E p \in Procs :
    /\ orch[p].pc = "idle" /\ orch[p].outcome = "fail"
    /\ orch[p].invoked = MAX_RETRIES /\ orch[p].attempt = MAX_RETRIES - 1
    /\ orch[p].lastError = HttpError(500)

(***************************************************************************)
(* blockUser (kickPlayer.js, lines 605-637): the operation sends one       *)
(* request through the dispatcher and turns a non-200 response into an     *)
(* Error; retryWithTokenRefresh (lines 569-602) runs it under              *)
(* retryWithBackoff (lines 491-566) and, after a failure classified auth,  *)
(* once more with a fresh token.  unblockUser (lines 640-672) is the same  *)
(* code with another endpoint and message.  The rate limiter is taken to   *)
(* have a token; the circuit breaker either admits an attempt or rejects   *)
(* it.  A sleep is recorded by its duration.                               *)
(***************************************************************************)
\* the responses of the block endpoint: the status, the body text, and the
\* Retry-After header in seconds (NULL when the response has none)
BodyTexts == {"", "{}", "{\"errors\":[]}",
              "{\"errors\":[{\"message\":\"Something went wrong\"}]}",
              "<html>Bad Gateway</html>"}

BlockResponses ==
  [statusCode : {200, 400, 403, 429, 500}, body : BodyTexts,
   retryAfter : {NULL, 5}]

NoBlockResponse == [statusCode |-> 0, body |-> "", retryAfter |-> NULL]

\* what http(httpOpt) rejects with: a connection error of the request
\* library, the abort of the AbortController (lines 450-452)
HttpRejections ==
  {MkErr("ECONNRESET", "Error", 0, 0, 0, FALSE, FALSE, NULL),
   MkErr("", "AbortError", 0, 0, 0, FALSE, FALSE, NULL)}

\* JSON.parse(body) of the body texts: whether it throws, and
\* json.errors && json.errors[0] && json.errors[0].message ("" when falsy)
ParseFails(body) == body = "<html>Bad Gateway</html>"

KnownMessage(body) ==
  IF body = "{\"errors\":[{\"message\":\"Something went wrong\"}]}"
  THEN "Something went wrong" ELSE ""

\* the Error the operation throws for a non-200 response (lines 616-626):
\* `Failed to parse response: ${body}`, the message of the envelope, or
\* `HTTP ${res.statusCode}: Failed to block user`; a new Error has no
\* statusCode, status or headers
OperationError(res) ==
  LET body == IF res.body = "" THEN "{}" ELSE res.body IN
  IF ParseFails(body) THEN MkErr("", "Error", 0, 0, 0, FALSE, FALSE, NULL)
  ELSE IF KnownMessage(body) # "" THEN MkErr("", "Error", 0, 0, 0, FALSE, FALSE, NULL)
  ELSE HttpError(res.statusCode)

\* new Error(`${operationName} failed: Could not refresh CSRF token:
\* ${tokenError.message}`) (line 595): the message holds 'CSRF' and the
\* message of tokenError
RefreshError(tokenError) ==
  MkErr("", "Error", 0, 0, tokenError.msgHttp, tokenError.msgTimeout, TRUE, NULL)

\* Error('Failed to obtain X-CSRF-TOKEN from all endpoints...') of
\* CSRFManager.getToken
GetTokenError == MkErr("", "Error", 0, 0, 0, FALSE, TRUE, NULL)

InitStep ==
  [pc |-> "call", fresh |-> FALSE, attempt |-> 0, token |-> "",
   invoked |-> 0, refreshes |-> 0, waits |-> 0, slept |-> 0, sleepKind |-> "",
   response |-> NoBlockResponse, lastError |-> NoError, error |-> NoError]

StepFrame == UNCHANGED <<coreVars, probe, disp, px, kick, gu, conf, fn, blk>>

\* retryWithTokenRefresh receives `error` from retryWithBackoff (lines
\* 572-601): the token is refreshed after an auth failure of the first
\* sequence; a failure of the second sequence is wrapped and thrown
MutSequenceThrows(s, error) ==
  IF classifyError(error).type = "auth"
  THEN [s EXCEPT !.pc = "refresh", !.refreshes = @ + 1, !.lastError = error]
  ELSE [s EXCEPT !.pc = "rejected", !.error = error, !.lastError = error]

SequenceThrows(s, error) ==
  IF s.fresh
  THEN [s EXCEPT !.pc = "rejected", !.error = RefreshError(error), !.lastError = error]
  ELSE IF classifyError(error).type = "auth"
  THEN [s EXCEPT !.pc = "refresh", !.refreshes = @ + 1, !.lastError = error]
  ELSE [s EXCEPT !.pc = "rejected", !.error = error, !.lastError = error]

\* the catch block of retryWithBackoff for `error` (lines 513-561)
AttemptThrows(s, error, jitter) ==
  LET o == HandleFailure([InitOrchProc EXCEPT !.attempt = s.attempt], error, jitter, 0)
      info == classifyError(error)
  IN IF o.pc = "sleep"
     THEN [s EXCEPT !.pc = "sleep", !.lastError = error, !.slept = o.wakeAt,
                    !.sleepKind = IF info.rateLimited THEN "rate_limit" ELSE "backoff",
                    !.waits = IF info.rateLimited THEN @ + 1 ELSE @]
     ELSE SequenceThrows(s, error)

\* one pass of the loop body up to the await of the request (line 501,
\* CircuitBreaker.execute, lines 611-615): the breaker rejects the attempt,
\* or the operation is invoked with the token of the sequence
Attempt(s, admitted, jitter) ==
  IF admitted
  THEN [s EXCEPT !.pc = "inflight", !.invoked = @ + 1,
                 !.token = IF s.fresh THEN "fresh" ELSE "given",
                 !.response = NoBlockResponse]
  ELSE AttemptThrows([s EXCEPT !.response = NoBlockResponse], CircuitOpenError, jitter)

\* blockUser is called: first attempt of the first sequence
BlockUserCall(admitted) ==
  /\ step.pc = "call"
  /\ \E jitter \in Jitters : step' = Attempt(step, admitted, jitter)
  /\ StepFrame

\* the dispatcher resolves with a response (lines 613-627)
StepResponds(res) ==
  /\ step.pc = "inflight"
  /\ \E jitter \in Jitters :
       step' = IF res.statusCode = 200
               THEN [step EXCEPT !.pc = "resolved", !.response = res]
               ELSE AttemptThrows([step EXCEPT !.response = res],
                                  OperationError(res), jitter)
  /\ StepFrame

\* the dispatcher rejects
StepHttpRejects(error) ==
  /\ step.pc = "inflight"
  /\ \E jitter \in Jitters : step' = AttemptThrows(step, error, jitter)
  /\ StepFrame

\* the sleep ends: attempt++, then the next pass of the loop, or lastError
\* is thrown after the loop (lines 564-565)
StepWakes(admitted) ==
  /\ step.pc = "sleep"
  /\ LET s == [step EXCEPT !.attempt = @ + 1] IN
       \E jitter \in Jitters :
         step' = IF s.attempt < MAX_RETRIES
                 THEN Attempt(s, admitted, jitter)
                 ELSE SequenceThrows(s, s.lastError)
  /\ StepFrame

\* CSRFManager.getToken(jar, true) resolves: the second sequence starts
\* (lines 584-588)
StepTokenRefreshed(admitted) ==
  /\ step.pc = "refresh"
  /\ \E jitter \in Jitters :
       step' = Attempt([step EXCEPT !.fresh = TRUE, !.attempt = 0, !.waits = 0],
                       admitted, jitter)
  /\ StepFrame

\* CSRFManager.getToken(jar, true) rejects (lines 589-596)
StepTokenRefreshFails ==
  /\ step.pc = "refresh"
  /\ step' = [step EXCEPT !.pc = "rejected", !.error = RefreshError(GetTokenError),
                          !.lastError = GetTokenError]
  /\ StepFrame

InitStepSpec ==
  /\ CoreIdle
  /\ probe = <<>> /\ disp = <<>> /\ px = <<>> /\ kick = <<>>
  /\ gu = <<>> /\ conf = <<>> /\ fn = <<>> /\ blk = <<>>
  /\ step = InitStep

NextStep ==
  \/ \E admitted \in BOOLEAN : BlockUserCall(admitted)
  \/ \E res \in BlockResponses : StepResponds(res)
  \/ \E error \in HttpRejections : StepHttpRejects(error)
  \/ \E admitted \in BOOLEAN : StepWakes(admitted)
  \/ \E admitted \in BOOLEAN : StepTokenRefreshed(admitted)
  \/ StepTokenRefreshFails

SpecStep == InitStepSpec /\ [][NextStep]_vars

\* C34: after a failure classified rate_limit the call sleeps for the
\* Retry-After duration of the server when the response carried one, else
\* for the fixed 60 s, before the next attempt; one retryWithBackoff call
\* makes at most MAX_RETRIES such waits.
C34_RetryAfterHonoured ==
  /\ (step.pc = "sleep" /\ step.sleepKind = "rate_limit")
       => step.slept = (IF step.response.retryAfter # NULL
                        THEN step.response.retryAfter * 1000
                        ELSE RATE_LIMIT_BACKOFF_MS)
  /\ step.waits <= MAX_RETRIES

\* C35: the token is force-refreshed only after the first retry sequence
\* ended in a failure classified auth, and then always; the sequence is
\* re-issued from attempt 0 with the new token; a failure of the second
\* sequence is final; so one step makes at most 1 forced refresh and at most
\* 2 * MAX_RETRIES invocations of the operation.
C35_RefreshOnce ==
  /\ [](/\ step.refreshes <= 1
        /\ step.invoked <= 2 * MAX_RETRIES
        /\ ~step.fresh => step.invoked <= MAX_RETRIES
        /\ step.pc = "refresh" => ~step.fresh
        /\ step.pc = "inflight"
             => step.token = (IF step.fresh THEN "fresh" ELSE "given"))
  /\ [][/\ step'.refreshes > step.refreshes
            => /\ ~step.fresh /\ step'.pc = "refresh"
               /\ classifyError(step'.lastError).type = "auth"
        /\ (step.pc \in {"call", "inflight", "sleep"} /\ ~step.fresh
              /\ step'.pc = "rejected")
            => /\ classifyError(step'.lastError).type # "auth"
               /\ step'.error = step'.lastError
        /\ (step.pc = "refresh" /\ step'.pc \in {"inflight", "sleep"})
            => /\ step'.fresh /\ step'.attempt = 0
               /\ step'.refreshes = step.refreshes
        /\ (step.fresh /\ step'.pc # step.pc)
            => step'.pc \in {"inflight", "sleep", "resolved", "rejected"}
        /\ step.pc \in {"resolved", "rejected"} => step' = step
       ]_vars

\* both sequences used all their attempts and the step rejected
C35_Witness ==
  /\ step.pc = "rejected" /\ step.fresh
  /\ step.refreshes = 1 /\ step.invoked = 2 * MAX_RETRIES
  /\ step.error = RefreshError(HttpError(403))

\* the operation has just thrown for a non-200 response
ResponseFailed ==
  /\ step.response.statusCode \notin {0, 200}
  /\ step.lastError = OperationError(step.response)
  /\ step.pc \in {"sleep", "refresh", "rejected"}

\* C36: a non-200 response is classified by its status whether or not its
\* body carries the errors envelope: 5xx is server and is retried with
\* backoff, 429 is rate_limit, a 4xx other than 401/403/429 is client.
C36_ResponseClassifiedByStatus ==
  ResponseFailed =>
    /\ classifyError(step.lastError).type = KindOfStatus(step.response.statusCode)
    /\ (step.response.statusCode >= 500 /\ step.attempt < MAX_RETRIES - 1)
         => step.pc = "sleep" /\ step.sleepKind = "backoff"

\* C37: a getToken call made with one session never returns a token that
\* was acquired with another session, from the cache or from a refresh in
\* flight.
C37_TokensPerSession ==
  \A g \in Getters :
    tok[g].via \in {"cache", "refresh"} => tok[g].result.jar = tok[g].jar

\* the refresh i has failed and the getToken call that started it has not
\* yet resumed
OwnerSuspended(i) ==
  \/ promises[i].owner = "timer"
  \/ /\ promises[i].owner \in Getters
     /\ tok[promises[i].owner].pc = "await"
     /\ tok[promises[i].owner].prom = i
     /\ tok[promises[i].owner].owner

C38_FallbackKeepsSession ==
  \A i \in FallbackRequests :
    disp.asked.jar = "A" =>
      /\ disp.sent[i].session = "A"
      /\ i > 1 => disp.sent[i].session = disp.sent[i - 1].session

(***************************************************************************)
(* block({userId, apiUrl, jar}) of lib/accountsettings/block.js (lines     *)
(* 23-88): exports.func awaits getGeneralToken and returns block(...),     *)
(* whose promise is settled only by the resolve and reject calls of the    *)
(* response handler; the promise chain built inside the executor is        *)
(* returned to the Promise constructor, which ignores it.                  *)
(***************************************************************************)
BlockBodies == BodyTexts \cup {"null"}

BlockApiResponses ==
  [statusCode : {200, 400, 403, 500}, body : BlockBodies, retryAfter : {NULL}]

\* JSON.parse(res.body) throws ('' is not JSON)
BlockParseFails(text) == text \in {"", "<html>Bad Gateway</html>"}

\* body.errors && body.errors.length > 0, with body = JSON.parse(...) || {}
HasErrors(text) == KnownMessage(text) # ""

NoBlockError == [from |-> "", status |-> 0, text |-> ""]

InitBlk ==
  \E jar \in {"absent", "A"}, apiUrl \in {"", "custom.roblox.example"} :
    blk = [pc |-> "call", jar |-> jar, apiUrl |-> apiUrl, host |-> "",
           eventTracker |-> FALSE, response |-> NoBlockResponse,
           inner |-> "none", chain |-> "none", promise |-> "none",
           error |-> NoBlockError]

BlkFrame == UNCHANGED <<coreVars, probe, disp, px, kick, gu, conf, fn, step>>

\* exports.func is called: getGeneralToken({jar}) is in flight (line 78)
BlockCall ==
  /\ blk.pc = "call"
  /\ blk' = [blk EXCEPT !.pc = "token", !.promise = "pending"]
  /\ BlkFrame

\* getGeneralToken rejects: the catch handler rethrows (lines 84-87)
BlockTokenRejects ==
  /\ blk.pc = "token"
  /\ blk' = [blk EXCEPT !.pc = "done", !.promise = "rejected",
                        !.error = [from |-> "getGeneralToken", status |-> 0,
                                   text |-> "Failed to obtain X-CSRF-TOKEN"]]
  /\ BlkFrame

\* getGeneralToken resolves: block() builds the request and calls http
\* (lines 79-82, 23-53); tracker is whether makeEventTracker returned a cookie
BlockTokenResolves(tracker) ==
  /\ blk.pc = "token"
  /\ blk' = [blk EXCEPT !.pc = "request", !.inner = "pending", !.chain = "pending",
                        !.host = IF blk.apiUrl # "" THEN blk.apiUrl
                                 ELSE "apis.roblox.com",
                        !.eventTracker = tracker]
  /\ BlkFrame

\* the .then handler of block (lines 53-68): what it does to the promise of
\* block for the response res
ResponseSettles(res) ==
  IF res.statusCode = 200 THEN "resolved"
  ELSE IF BlockParseFails(res.body) THEN "rejected"
  ELSE IF HasErrors(res.body) THEN "rejected"
  ELSE "pending"

\* http resolves with res
BlockResponds(res) ==
  /\ blk.pc = "request"
  /\ LET inner == ResponseSettles(res) IN
       blk' = [blk EXCEPT
         !.pc = "done", !.response = res, !.inner = inner, !.chain = "resolved",
         !.promise = inner,
         !.error = IF inner # "rejected" THEN NoBlockError
                   ELSE [from |-> "response", status |-> res.statusCode,
                         text |-> IF BlockParseFails(res.body) THEN res.body
                                  ELSE KnownMessage(res.body)]]
  /\ BlkFrame

\* http rejects: the .catch handler of block logs and rethrows (lines
\* 69-72), which rejects the chain the executor returned, not the promise
BlockHttpRejects(error) ==
  /\ blk.pc = "request"
  /\ blk' = [blk EXCEPT !.pc = "done", !.chain = "rejected",
                        !.error = [from |-> "http", status |-> 0, text |-> error.code]]
  /\ BlkFrame

InitBlock ==
  /\ CoreIdle
  /\ probe = <<>> /\ disp = <<>> /\ px = <<>> /\ kick = <<>>
  /\ gu = <<>> /\ conf = <<>> /\ fn = <<>> /\ step = <<>>
  /\ InitBlk

NextBlock ==
  \/ BlockCall
  \/ BlockTokenRejects
  \/ \E tracker \in BOOLEAN : BlockTokenResolves(tracker)
  \/ \E res \in BlockApiResponses : BlockResponds(res)
  \/ \E error \in HttpRejections : BlockHttpRejects(error)

SpecBlock == InitBlock /\ [][NextBlock]_vars

\* C40: once every handler of the call has run, the promise block({userId})
\* returned is settled: resolved when the response status was 200, rejected
\* in every other outcome.
C40_BlockSettles ==
  blk.pc = "done" =>
    /\ blk.promise \in {"resolved", "rejected"}
    /\ blk.promise = "resolved" <=> blk.response.statusCode = 200

=============================================================================
